---- MODULE Spec2Model ----
(***************************************************************************)
(* A model of the WhatsApp assessment bot: the conversation state machine  *)
(* (src/src/conversation_flow.py), the conversation state store            *)
(* (src/src/state_store.py), the records they exchange                     *)
(* (src/src/models.py), the webhook boundary (src/src/main.py,             *)
(* src/src/webhook_handler.py) and the reading of the backend's streamed   *)
(* reply (src/src/backend_client.py).                                      *)
(*                                                                         *)
(* Six specifications share the variables: Spec handles one message after  *)
(* the other; StoreSpec interleaves coroutines of get, set and delete;     *)
(* RaceSpec interleaves the handlers of two deliveries; StreamSpec reads   *)
(* one streamed reply line by line; ButtonSpec builds one button payload;  *)
(* ProgressSpec follows one conversation in which nothing fails.           *)
(*                                                                         *)
(* Texts are sequences of one-character strings, so that lower(), strip(), *)
(* substring tests and digit scans are computed, not assumed.              *)
(*                                                                         *)
(* A handler is a composition of steps.  Each step maps one "world" (the   *)
(* store object, the Redis server, the handler's local state_data, the     *)
(* messages and backend calls made so far, the pending exception) to the   *)
(* SET of worlds it can produce: one per outcome of the external call it   *)
(* makes.  A step does nothing in a world that carries an exception, as a  *)
(* Python statement after a raise.                                         *)
(***************************************************************************)
EXTENDS Integers, Sequences, FiniteSets, TLC

VARIABLES
    store,          \* the ConversationStateStore object (state_store.py:22-35)
    redis_db,       \* the Redis server: key -> the payload set, or None
    now,            \* the clock, in time-to-live periods
    next_session,   \* the backend's next session number
    degraded_logs,  \* degraded-persistence warnings emitted so far
    settings,       \* configuration and environment fixed at process start
    sse,            \* query_assistant reading one streamed reply
    tasks,          \* coroutines of get, set and delete, suspended at an await
    init_lock,      \* the holder of ConversationStateStore._init_lock
    attempts,       \* initialization attempts made so far
    inflight,       \* webhook deliveries being handled, suspended at an await
    button_call     \* one call of WhapiClient._build_button_payload

\* the variables of the conversation flow and its store
flow_vars == <<store, redis_db, now, next_session, degraded_logs, settings>>

vars == <<store, redis_db, now, next_session, degraded_logs, settings,
          sse, tasks, init_lock, attempts, inflight, button_call>>

(***************************************************************************)
(* Bounds of the model.                                                    *)
(***************************************************************************)
MaxClock == 1
MaxSessions == 1
MaxQuestions == 2
MaxLines == 4
MaxTasks == 2
MaxDeliveries == 2
MaxButtons == 4

\* Optional[T]: None is the empty tuple, a value v is <<v>>
None == <<>>
Some(v) == <<v>>
Val(o) == o[1]

(***************************************************************************)
(* Text: str.lower(), str.strip(), the `in` substring test, digit runs.    *)
(***************************************************************************)
UpperChars == <<"A","B","C","D","E","F","G","H","I","J","K","L","M",
                "N","O","P","Q","R","S","T","U","V","W","X","Y","Z">>
LowerChars == <<"a","b","c","d","e","f","g","h","i","j","k","l","m",
                "n","o","p","q","r","s","t","u","v","w","x","y","z">>
Whitespace == {" ", "\t", "\n"}
Digits == <<"0","1","2","3","4","5","6","7","8","9">>

LowerChar(c) ==
    IF \E i \in 1..26 : UpperChars[i] = c
    THEN LowerChars[CHOOSE i \in 1..26 : UpperChars[i] = c]
    ELSE c

Lower(s) == [i \in 1..Len(s) |-> LowerChar(s[i])]

RECURSIVE LStrip(_)
LStrip(s) ==
    IF s # <<>> /\ Head(s) \in Whitespace THEN LStrip(Tail(s)) ELSE s

RECURSIVE RStrip(_)
RStrip(s) ==
    IF s # <<>> /\ s[Len(s)] \in Whitespace
    THEN RStrip(SubSeq(s, 1, Len(s) - 1))
    ELSE s

Strip(s) == RStrip(LStrip(s))

\* Python's `a in b` for strings
Contains(b, a) ==
    \E i \in 0..(Len(b) - Len(a)) : SubSeq(b, i + 1, i + Len(a)) = a

IsDigit(c) == \E i \in 1..10 : Digits[i] = c
DigitVal(c) == (CHOOSE i \in 1..10 : Digits[i] = c) - 1
AllDigits(s) == s # <<>> /\ \A i \in 1..Len(s) : IsDigit(s[i])

RECURSIVE ToInt(_)
ToInt(s) ==
    IF s = <<>> THEN 0
    ELSE 10 * ToInt(SubSeq(s, 1, Len(s) - 1)) + DigitVal(s[Len(s)])

RECURSIVE ToDigits(_)
ToDigits(n) ==
    IF n < 10 THEN <<Digits[n + 1]>>
    ELSE Append(ToDigits(n \div 10), Digits[(n % 10) + 1])

Pad2(n) == IF n < 10 THEN <<"0">> \o ToDigits(n) ELSE ToDigits(n)

\* the fields of s between occurrences of the one-character separator sep
RECURSIVE Split(_, _)
Split(s, sep) ==
    IF \E i \in 1..Len(s) : s[i] = sep
    THEN LET i == CHOOSE k \in 1..Len(s) :
                      s[k] = sep /\ \A j \in 1..(k - 1) : s[j] # sep
         IN <<SubSeq(s, 1, i - 1)>> \o Split(SubSeq(s, i + 1, Len(s)), sep)
    ELSE <<s>>

\* re.findall(r'\d+', s)[0]: the first maximal run of digits, <<>> if none
FirstDigitRun(s) ==
    IF \E i \in 1..Len(s) : IsDigit(s[i])
    THEN LET a == CHOOSE k \in 1..Len(s) :
                      IsDigit(s[k]) /\ \A j \in 1..(k - 1) : ~IsDigit(s[j])
             b == CHOOSE k \in a..Len(s) :
                      /\ \A j \in a..k : IsDigit(s[j])
                      /\ (k = Len(s) \/ ~IsDigit(s[k + 1]))
         IN SubSeq(s, a, b)
    ELSE <<>>

(***************************************************************************)
(* message_templates.py: the phrase tables.  A table is a sequence of      *)
(* <<key, value>> pairs in the dictionary's insertion order.  Devanagari    *)
(* letters are written as their code points.                               *)
(***************************************************************************)
LANGUAGE_BUTTONS ==
    << <<"E","n","g","l","i","s","h">>,
       <<"H","i","n","d","i">>,
       <<"M","a","r","a","t","h","i">> >>

LANGUAGE_CODE_MAP ==
    << << <<"e","n","g","l","i","s","h">>, "en" >>,
       << <<"h","i","n","d","i">>, "hi" >>,
       << <<"m","a","r","a","t","h","i">>, "mr" >> >>

YES_NO_BUTTONS == << <<"Y","e","s">>, <<"N","o">> >>

ANSWER_BUTTONS(locale) ==
    CASE locale = "hi" ->
           << <<"U0939","U093E","U0902">>,
              <<"U0915","U092D","U0940","-","U0915","U092D","U0940">>,
              <<"U0928","U0939","U0940","U0902">>,
              <<"U0928","U093F","U0936","U094D","U091A","U093F","U0924",
                " ","U0928","U0939","U0940","U0902">> >>
      [] locale = "mr" ->
           << <<"U0939","U094B","U092F">>,
              <<"U0915","U0927","U0940","U0915","U0927","U0940">>,
              <<"U0928","U093E","U0939","U0940">>,
              <<"U0916","U093E","U0924","U094D","U0930","U0940",
                " ","U0928","U093E","U0939","U0940">> >>
      [] OTHER ->
           << <<"Y","e","s">>,
              <<"S","o","m","e","t","i","m","e","s">>,
              <<"N","o">>,
              <<"N","o","t"," ","S","u","r","e">> >>

ANSWER_CODE_MAP ==
    << << <<"y","e","s">>, "yes" >>,
       << <<"s","o","m","e","t","i","m","e","s">>, "sometimes" >>,
       << <<"n","o">>, "no" >>,
       << <<"n","o","t"," ","s","u","r","e">>, "not_sure" >>,
       << <<"U0939","U093E","U0902">>, "yes" >>,
       << <<"U0915","U092D","U0940","-","U0915","U092D","U0940">>, "sometimes" >>,
       << <<"U0928","U0939","U0940","U0902">>, "no" >>,
       << <<"U0928","U093F","U0936","U094D","U091A","U093F","U0924",
            " ","U0928","U0939","U0940","U0902">>, "not_sure" >>,
       << <<"U0939","U094B","U092F">>, "yes" >>,
       << <<"U0915","U0927","U0940","U0915","U0927","U0940">>, "sometimes" >>,
       << <<"U0928","U093E","U0939","U0940">>, "no" >>,
       << <<"U0916","U093E","U0924","U094D","U0930","U0940",
            " ","U0928","U093E","U0939","U0940">>, "not_sure" >> >>

Locales == {"en", "hi", "mr"}

\* dict.get(key): the value of the entry whose key is k, None if there is none
TableGet(table, k) ==
    IF \E i \in 1..Len(table) : table[i][1] = k
    THEN Some(table[CHOOSE i \in 1..Len(table) : table[i][1] = k][2])
    ELSE None

\* the value of the first entry, in table order, that satisfies Hit; None if none
FirstMatch(table, Hit(_)) ==
    IF \E i \in 1..Len(table) : Hit(table[i][1])
    THEN Some(table[CHOOSE i \in 1..Len(table) :
                   Hit(table[i][1]) /\ \A j \in 1..(i - 1) : ~Hit(table[j][1])][2])
    ELSE None

\* get_message: the template of the locale, the English one for an unknown locale.
\* A message is represented by its template's name and the locale whose text is used.
get_message(template, locale) ==
    [template |-> template, locale |-> IF locale \in Locales THEN locale ELSE "en"]

\* `state_data.collected_data.locale or "en"`
LocaleOr(cd) == IF cd.locale = None \/ Val(cd.locale) = "" THEN "en" ELSE Val(cd.locale)

(***************************************************************************)
(* conversation_flow.py: the special commands and the affirmative replies. *)
(***************************************************************************)
RestartPhrases ==
    { <<"r","e","s","t","a","r","t">>,
      <<"s","t","a","r","t"," ","o","v","e","r">>,
      <<"n","e","w">> }

HelpPhrases == { <<"h","e","l","p">>, <<"i","n","f","o">> }

AffirmativePhrases ==
    { <<"y","e","s">>, <<"y">>, <<"9",">","U0002">>, <<"9","K","/">> }

IsRestart(text) == Strip(Lower(text)) \in RestartPhrases
IsHelp(text) == Strip(Lower(text)) \in HelpPhrases

(***************************************************************************)
(* parse_date: four strptime formats in order, then dateutil.              *)
(***************************************************************************)
IsLeap(y) == (y % 4 = 0 /\ y % 100 # 0) \/ y % 400 = 0

DaysInMonth(y, m) ==
    IF m = 2 THEN (IF IsLeap(y) THEN 29 ELSE 28)
    ELSE IF m \in {4, 6, 9, 11} THEN 30 ELSE 31

\* strptime's %d: 3[0-1] | [1-2]\d | 0[1-9] | [1-9] | " "[1-9]
MatchesDay(f) ==
    \/ Len(f) = 2 /\ AllDigits(f) /\ ToInt(f) \in 1..31
    \/ Len(f) = 1 /\ AllDigits(f) /\ ToInt(f) \in 1..9
    \/ Len(f) = 2 /\ f[1] = " " /\ IsDigit(f[2]) /\ DigitVal(f[2]) \in 1..9

DayOf(f) == IF f[1] = " " THEN DigitVal(f[2]) ELSE ToInt(f)

\* strptime's %m: 1[0-2] | 0[1-9] | [1-9]
MatchesMonth(f) ==
    \/ Len(f) = 2 /\ AllDigits(f) /\ ToInt(f) \in 1..12
    \/ Len(f) = 1 /\ AllDigits(f) /\ ToInt(f) \in 1..9

\* strptime's %Y: \d\d\d\d
MatchesYear(f) == Len(f) = 4 /\ AllDigits(f)

\* datetime(y, m, d) exists, then strftime("%Y-%m-%d")
IsoDate(y, m, d) ==
    IF y >= 1 /\ d <= DaysInMonth(y, m)
    THEN Some(ToDigits(y) \o <<"-">> \o Pad2(m) \o <<"-">> \o Pad2(d))
    ELSE None

\* datetime.strptime(s, "%d<sep>%m<sep>%Y"), None for ValueError
StrptimeDMY(s, sep) ==
    LET f == Split(s, sep)
    IN IF Len(f) = 3 /\ MatchesDay(f[1]) /\ MatchesMonth(f[2]) /\ MatchesYear(f[3])
       THEN IsoDate(ToInt(f[3]), ToInt(f[2]), DayOf(f[1]))
       ELSE None

\* datetime.strptime(s, "%Y-%m-%d"), None for ValueError
StrptimeYMD(s) ==
    LET f == Split(s, "-")
    IN IF Len(f) = 3 /\ MatchesYear(f[1]) /\ MatchesMonth(f[2]) /\ MatchesDay(f[3])
       THEN IsoDate(ToInt(f[1]), ToInt(f[2]), DayOf(f[3]))
       ELSE None

IsAlpha(c) == \E i \in 1..26 : UpperChars[i] = c \/ LowerChars[i] = c

\* the words dateutil's parserinfo knows: JUMP, WEEKDAYS, MONTHS, HMS, AMPM,
\* UTCZONE and PERTAIN
DateutilWords ==
    { <<"a","t">>, <<"o","n">>, <<"a","n","d">>, <<"a","d">>, <<"m">>, <<"t">>,
      <<"o","f">>, <<"s","t">>, <<"n","d">>, <<"r","d">>, <<"t","h">>,
      <<"m","o","n">>, <<"m","o","n","d","a","y">>,
      <<"t","u","e">>, <<"t","u","e","s","d","a","y">>,
      <<"w","e","d">>, <<"w","e","d","n","e","s","d","a","y">>,
      <<"t","h","u">>, <<"t","h","u","r","s","d","a","y">>,
      <<"f","r","i">>, <<"f","r","i","d","a","y">>,
      <<"s","a","t">>, <<"s","a","t","u","r","d","a","y">>,
      <<"s","u","n">>, <<"s","u","n","d","a","y">>,
      <<"j","a","n">>, <<"j","a","n","u","a","r","y">>,
      <<"f","e","b">>, <<"f","e","b","r","u","a","r","y">>,
      <<"m","a","r">>, <<"m","a","r","c","h">>,
      <<"a","p","r">>, <<"a","p","r","i","l">>,
      <<"m","a","y">>,
      <<"j","u","n">>, <<"j","u","n","e">>,
      <<"j","u","l">>, <<"j","u","l","y">>,
      <<"a","u","g">>, <<"a","u","g","u","s","t">>,
      <<"s","e","p">>, <<"s","e","p","t">>, <<"s","e","p","t","e","m","b","e","r">>,
      <<"o","c","t">>, <<"o","c","t","o","b","e","r">>,
      <<"n","o","v">>, <<"n","o","v","e","m","b","e","r">>,
      <<"d","e","c">>, <<"d","e","c","e","m","b","e","r">>,
      <<"h">>, <<"h","o","u","r">>, <<"h","o","u","r","s">>,
      <<"m","i","n","u","t","e">>, <<"m","i","n","u","t","e","s">>,
      <<"s">>, <<"s","e","c","o","n","d">>, <<"s","e","c","o","n","d","s">>,
      <<"a","m">>, <<"a">>, <<"p","m">>, <<"p">>,
      <<"u","t","c">>, <<"g","m","t">>, <<"z">> }

\* dateutil.parser.parse(date_str, dayfirst=True), the last resort: a library
\* outside the repository.  Without fuzzy=True it raises on a text that holds
\* a word it does not know (a time zone name aside: capitals only); what it
\* makes of any other text is left open here, as an unnamed date.
DateutilParse(s) ==
    IF \E a \in 1..Len(s), b \in 1..Len(s) :
           /\ a <= b
           /\ \A j \in a..b : IsAlpha(s[j])
           /\ (a = 1 \/ ~IsAlpha(s[a - 1]))
           /\ (b = Len(s) \/ ~IsAlpha(s[b + 1]))
           /\ Lower(SubSeq(s, a, b)) \notin DateutilWords
           /\ \E j \in a..b : \E i \in 1..26 : LowerChars[i] = s[j]
    THEN None
    ELSE Some(<<"dateutil">>)

parse_date(date_str) ==
    LET s == Strip(date_str)
        a == StrptimeDMY(s, "/")
        b == StrptimeDMY(s, "-")
        c == StrptimeDMY(s, ".")
        d == StrptimeYMD(s)
    IN IF a # None THEN a
       ELSE IF b # None THEN b
       ELSE IF c # None THEN c
       ELSE IF d # None THEN d
       ELSE DateutilParse(date_str)

(***************************************************************************)
(* models.py: ConversationState, CollectedData, ConversationStateData, and *)
(* the JSON text a record is stored as.                                    *)
(***************************************************************************)
\* the enumeration's members, in declaration order, with their values
ConversationState ==
    << <<"NEW", "new">>,
       <<"LANGUAGE_SELECT", "language_select">>,
       <<"ASK_NAME", "ask_name">>,
       <<"ASK_DOB", "ask_dob">>,
       <<"ASK_GESTATIONAL", "ask_gestational">>,
       <<"ASK_GESTATIONAL_WEEKS", "ask_gestational_weeks">>,
       <<"ASSESSMENT", "assessment">>,
       <<"COMPLETED", "completed">>,
       <<"ABANDONED", "abandoned">> >>

StepValue(member) ==
    ConversationState[CHOOSE i \in 1..Len(ConversationState) :
                          ConversationState[i][1] = member][2]

StepOfValue(value) ==
    ConversationState[CHOOSE i \in 1..Len(ConversationState) :
                          ConversationState[i][2] = value][1]

\* CollectedData(): every field None
CollectedData ==
    [locale |-> None, child_name |-> None, dob |-> None,
     is_premature |-> None, gestational_weeks |-> None]

\* ConversationStateData(current_step=step, last_message_at=t)
ConversationStateData(step, t) ==
    [current_step |-> step, collected_data |-> CollectedData,
     session_id |-> None, questions_asked |-> 0,
     last_message_at |-> t, last_question_id |-> None]

\* JSON values: null, or a tagged string, number or boolean
JsonNull == <<"null">>
JsonOf(tag, o) == IF o = None THEN JsonNull ELSE <<tag, Val(o)>>
OfJson(j) == IF j = JsonNull THEN None ELSE Some(j[2])

\* datetime.isoformat() and its parse
IsoFormat(t) == <<"T", t>>
FromIsoFormat(d) == d[2]

\* state.model_dump_json()
model_dump_json(state) ==
    [current_step |-> <<"string", StepValue(state.current_step)>>,
     collected_data |->
         [locale |-> JsonOf("string", state.collected_data.locale),
          child_name |-> JsonOf("string", state.collected_data.child_name),
          dob |-> JsonOf("string", state.collected_data.dob),
          is_premature |-> JsonOf("boolean", state.collected_data.is_premature),
          gestational_weeks |->
              JsonOf("number", state.collected_data.gestational_weeks)],
     session_id |-> JsonOf("string", state.session_id),
     questions_asked |-> <<"number", state.questions_asked>>,
     last_message_at |-> <<"string", IsoFormat(state.last_message_at)>>,
     last_question_id |-> JsonOf("string", state.last_question_id)]

\* ConversationStateData.model_validate_json(data)
model_validate_json(data) ==
    [current_step |-> StepOfValue(data.current_step[2]),
     collected_data |->
         [locale |-> OfJson(data.collected_data.locale),
          child_name |-> OfJson(data.collected_data.child_name),
          dob |-> OfJson(data.collected_data.dob),
          is_premature |-> OfJson(data.collected_data.is_premature),
          gestational_weeks |-> OfJson(data.collected_data.gestational_weeks)],
     session_id |-> OfJson(data.session_id),
     questions_asked |-> data.questions_asked[2],
     last_message_at |-> FromIsoFormat(data.last_message_at[2]),
     last_question_id |-> OfJson(data.last_question_id)]

(***************************************************************************)
(* The world a handler runs in.                                            *)
(***************************************************************************)
Phones == {"15551234567"}

\* ConversationStateStore._key
Key(phone) == <<"conversation_state:", phone>>

Keys == {Key(p) : p \in Phones}

\* ConversationStateStore.__init__
NewStore ==
    [initialized |-> FALSE,
     redis |-> None,
     redis_available |-> FALSE,
     memory_only_mode |-> FALSE,
     memory_warning_logged |-> FALSE,
     memory_store |-> [p \in Phones |-> None]]

\* the world at the start of an operation
World ==
    [store |-> store,
     redis_db |-> redis_db,
     degraded_logs |-> degraded_logs,
     next_session |-> next_session,
     state_data |-> None,     \* the handler's local state_data
     ret |-> None,            \* the value the last call returned
     exc |-> None,            \* the exception being raised, if any
     sent |-> <<>>,           \* calls of the delivery client, in order
     backend |-> <<>>,        \* calls of the backend client, in order
     redis_calls |-> <<>>,    \* commands sent to the Redis server, in order
     sets |-> 0,              \* calls of state_store.set
     set_log |-> <<>>,        \* for each of them: the step set, and how many
                              \* messages and backend calls came before
     loaded |-> None,         \* what get_or_create_state returned
     created |-> FALSE]       \* whether get_or_create_state created the record

\* S ; Op: Op in every world of S
Then(S, Op(_)) == UNION {Op(w) : w \in S}

\* a statement runs only where no exception is being raised
Run(w, Op(_)) == IF w.exc # None THEN {w} ELSE Op(w)

Raise(w, e) == [w EXCEPT !.exc = Some(e), !.ret = None]

(***************************************************************************)
(* state_store.py                                                          *)
(***************************************************************************)
\* _log_memory_fallback without the _memory_warning_logged test
LogMemoryFallbackEveryTime(w) ==
    [w EXCEPT !.degraded_logs = @ + 1,
              !.store.memory_warning_logged = TRUE]

\* _log_memory_fallback: the warning, once
LogMemoryFallback(w) ==
    IF w.store.memory_warning_logged THEN w
    ELSE [w EXCEPT !.degraded_logs = @ + 1,
                   !.store.memory_warning_logged = TRUE]

\* one command sent to the Redis server
RedisCall(w, op, ok) ==
    [w EXCEPT !.redis_calls = Append(@, [op |-> op, ok |-> ok])]

\* the runtime demotion of get, set and delete's except branches
Demote(w, reason) ==
    LogMemoryFallback(
        [w EXCEPT !.store.redis_available = FALSE,
                  !.store.memory_only_mode = TRUE])

\* initialize without the redis package (lines 46-60)
InitializeWithoutRedis(w) ==
    IF ~settings.allow_memory_state_store
    THEN Raise(LogMemoryFallback(w), "RuntimeError")
    ELSE LogMemoryFallback(
             [w EXCEPT !.store.memory_only_mode = TRUE,
                       !.store.initialized = TRUE])

\* initialize falling back to the memory store whatever _allow_memory is
PingReturnFallingBack(w, ok) ==
    IF ok
    THEN [RedisCall(w, "ping", TRUE)
             EXCEPT !.store.redis = Some("client"),
                    !.store.redis_available = TRUE,
                    !.store.initialized = TRUE]
    ELSE LogMemoryFallback(
             [RedisCall(w, "ping", FALSE)
                 EXCEPT !.store.redis = None,
                        !.store.redis_available = FALSE,
                        !.store.memory_only_mode = TRUE,
                        !.store.initialized = TRUE])

\* initialize once `await self._redis.ping()` has returned or raised
\* (lines 62-97)
PingReturn(w, ok) ==
    IF ok
    THEN [RedisCall(w, "ping", TRUE)
             EXCEPT !.store.redis = Some("client"),
                    !.store.redis_available = TRUE,
                    !.store.initialized = TRUE]
    ELSE LET f == [RedisCall(w, "ping", FALSE)
                      EXCEPT !.store.redis = None,
                             !.store.redis_available = FALSE]
         IN IF ~settings.allow_memory_state_store
            THEN Raise(LogMemoryFallback(f), "RuntimeError")
            ELSE LogMemoryFallback(
                     [f EXCEPT !.store.memory_only_mode = TRUE,
                               !.store.initialized = TRUE])

\* initialize, past the `if self._initialized: return` checks
InitializeBody(w) ==
    IF ~settings.redis_module_available
    THEN {InitializeWithoutRedis(w)}
    ELSE {PingReturn(w, TRUE), PingReturn(w, FALSE)}

initialize(w) == IF w.store.initialized THEN {w} ELSE InitializeBody(w)

\* _ensure_ready
ensure_ready(w) == IF ~w.store.initialized THEN initialize(w) ELSE {w}

\* the test of get, set and delete without the _redis_available flag
UsesRedisClient(w) == w.store.redis # None

\* `if self._redis_available and self._redis:`
UsesRedis(w) == w.store.redis_available /\ w.store.redis # None

\* the memory branch and the decoding at the end of get
GetTail(w, phone, data) ==
    LET d == IF data = None THEN w.store.memory_store[phone] ELSE data
    IN [w EXCEPT !.ret = IF d = None THEN None
                         ELSE Some(model_validate_json(Val(d)))]

\* get once `await self._redis.get(...)` has returned or raised
GetReturn(w, phone, ok) ==
    IF ok
    THEN GetTail(RedisCall(w, "get", TRUE), phone, w.redis_db[Key(phone)])
    ELSE GetTail(Demote(RedisCall(w, "get", FALSE), "Redis get failed"),
                 phone, None)

\* get, once the store is ready
GetBody(w, phone) ==
    IF UsesRedis(w)
    THEN { GetReturn(w, phone, TRUE), GetReturn(w, phone, FALSE) }
    ELSE { GetTail(w, phone, None) }

store_get(w, phone) ==
    Then(ensure_ready(w), LAMBDA v : Run(v, LAMBDA u : GetBody(u, phone)))

\* the end of set without the write to the memory store
SetTailWithoutWrite(w, phone, payload) ==
    IF ~w.store.redis_available THEN LogMemoryFallback(w) ELSE w

\* the memory branch at the end of set
SetTail(w, phone, payload) ==
    LET m == [w EXCEPT !.store.memory_store[phone] = Some(payload)]
    IN IF ~m.store.redis_available THEN LogMemoryFallback(m) ELSE m

\* set once `await self._redis.set(...)` has returned or raised
SetReturn(w, phone, payload, ok) ==
    IF ok
    THEN [RedisCall(w, "set", TRUE) EXCEPT !.redis_db[Key(phone)] = Some(payload)]
    ELSE SetTail(Demote(RedisCall(w, "set", FALSE), "Redis set failed"),
                 phone, payload)

\* set, once the store is ready
SetBody(w, phone, state) ==
    LET payload == model_dump_json(state)
        c == [w EXCEPT !.sets = @ + 1,
                       !.set_log = Append(@, [step |-> state.current_step,
                                              sent |-> Len(w.sent),
                                              backend |-> Len(w.backend)])]
    IN IF UsesRedis(c)
       THEN { SetReturn(c, phone, payload, TRUE),
              SetReturn(c, phone, payload, FALSE) }
       ELSE { SetTail(c, phone, payload) }

store_set(w, phone, state) ==
    Then(ensure_ready(w), LAMBDA v : Run(v, LAMBDA u : SetBody(u, phone, state)))

\* the memory branch at the end of delete
DeleteTail(w, phone) ==
    LET m == [w EXCEPT !.store.memory_store[phone] = None]
    IN IF ~m.store.redis_available THEN LogMemoryFallback(m) ELSE m

\* delete once `await self._redis.delete(...)` has returned or raised
DeleteReturn(w, phone, ok) ==
    IF ok
    THEN DeleteTail([RedisCall(w, "delete", TRUE)
                        EXCEPT !.redis_db[Key(phone)] = None], phone)
    ELSE DeleteTail(Demote(RedisCall(w, "delete", FALSE), "Redis delete failed"),
                    phone)

\* delete, once the store is ready
DeleteBody(w, phone) ==
    IF UsesRedis(w)
    THEN { DeleteReturn(w, phone, TRUE), DeleteReturn(w, phone, FALSE) }
    ELSE { DeleteTail(w, phone) }

store_delete(w, phone) ==
    Then(ensure_ready(w), LAMBDA v : Run(v, LAMBDA u : DeleteBody(u, phone)))

(***************************************************************************)
(* state_store.py under asyncio: get, set and delete are coroutines of one *)
(* event loop.  A coroutine runs alone from one await that suspends it to  *)
(* the next: the wait for _init_lock when another coroutine holds it, and  *)
(* the answers of the Redis server to ping, get, set and delete.  The      *)
(* _memory_lock is never held across an await, so it never suspends.       *)
(***************************************************************************)
Tasks == 1..MaxTasks

StoreOps == {"get", "set", "delete"}

\* the records the coroutines of the model store
TaskStates == { ConversationStateData("NEW", 0),
                ConversationStateData("ASK_NAME", 0) }

\* a coroutine of the store: where it is suspended, the call it runs
\* (op, phone, payload), the exception the call ended with and whether its
\* last call saw a command of the Redis server fail
TaskIdle ==
    [pc |-> "idle", op |-> "none", phone |-> CHOOSE p \in Phones : TRUE,
     payload |-> None, exc |-> None, failed |-> FALSE]

\* what a step of a coroutine leaves: the world, the coroutine, the holder of
\* _init_lock and the number of initialization attempts it started
TaskStep(w, task, lock, attempt) ==
    [w |-> w, task |-> task, lock |-> lock, attempt |-> attempt]

\* the call returns or raises
TaskDone(w, task) ==
    TaskStep(w, [task EXCEPT !.pc = "idle", !.exc = w.exc], None, 0)

\* get, set or delete after _ensure_ready, up to its await or its end
TaskBody(w, task) ==
    IF UsesRedis(w)
    THEN TaskStep(w, [task EXCEPT !.pc = "redis"], None, 0)
    ELSE CASE task.op = "get" -> TaskDone(GetTail(w, task.phone, None), task)
           [] task.op = "set" ->
                  TaskDone(SetTail(w, task.phone, Val(task.payload)), task)
           [] task.op = "delete" -> TaskDone(DeleteTail(w, task.phone), task)

\* initialize inside `async with self._init_lock`, up to its await or its end
TaskInitialize(w, t, task) ==
    IF w.store.initialized THEN TaskBody(w, task)
    ELSE IF ~settings.redis_module_available
    THEN LET v == InitializeWithoutRedis(w)
             r == IF v.exc # None THEN TaskDone(v, task) ELSE TaskBody(v, task)
         IN [r EXCEPT !.attempt = 1]
    ELSE TaskStep(w, [task EXCEPT !.pc = "ping"], Some(t), 1)

\* the coroutine once its Redis command has returned or raised
TaskReturn(w, task, ok) ==
    LET done == [task EXCEPT !.failed = ~ok]
    IN CASE task.op = "get" -> TaskDone(GetReturn(w, task.phone, ok), done)
         [] task.op = "set" ->
                TaskDone(SetReturn(w, task.phone, Val(task.payload), ok), done)
         [] task.op = "delete" -> TaskDone(DeleteReturn(w, task.phone, ok), done)

(***************************************************************************)
(* whapi_client.py: the delivery client.                                   *)
(***************************************************************************)
\* the first n elements of a sequence (s[:n])
Take(s, n) == SubSeq(s, 1, IF Len(s) < n THEN Len(s) ELSE n)

RECURSIVE ButtonObjects(_, _)
\* the loop of _build_button_payload over buttons[:3], from position index on
ButtonObjects(buttons, index) ==
    IF index > Len(buttons) THEN <<>>
    ELSE LET trimmed_title == Strip(buttons[index])
             rest == ButtonObjects(buttons, index + 1)
         IN IF trimmed_title = <<>> THEN rest
            ELSE << [type |-> "quick_reply",
                     title |-> Take(trimmed_title, 20),
                     id |-> <<"btn_", index - 1>>] >> \o rest

\* _build_button_payload without the [:3] slice
build_button_payload_unsliced(buttons) ==
    LET button_objects == ButtonObjects(buttons, 1)
    IN IF button_objects = <<>> THEN None ELSE Some(button_objects)

\* _build_button_payload: the button objects, None for the ValueError
build_button_payload(buttons) ==
    LET button_objects == ButtonObjects(Take(buttons, 3), 1)
    IN IF button_objects = <<>> THEN None ELSE Some(button_objects)

\* a call of _build_button_payload: its argument, the button objects it
\* returned and whether it raised ValueError
ButtonCall(buttons) ==
    [pc |-> "called", buttons |-> buttons, ret |-> None, exc |-> None]

\* no call of _build_button_payload is being made
ButtonIdle == [ButtonCall(<<>>) EXCEPT !.pc = "idle"]

\* the call returns or raises
ButtonReturn(c) ==
    LET payload == build_button_payload(c.buttons)
    IN IF payload = None
       THEN [c EXCEPT !.pc = "raised", !.exc = Some("ValueError")]
       ELSE [c EXCEPT !.pc = "returned", !.ret = payload]

\* how one HTTP call of the delivery client can end: delivered and answered;
\* an HTTP or transport error (the message is not delivered); delivered, but
\* the response body is no JSON, so response.json() raises json.JSONDecodeError,
\* a ValueError
SendOutcomes == {"ok", "http_error", "bad_json"}

Delivered(m) == m.outcome \in {"ok", "bad_json"}

\* a call of the delivery client; `after` is the number of backend calls the
\* handler has made before it
Message(kind, body, buttons) ==
    [kind |-> kind, body |-> body, buttons |-> buttons, outcome |-> "ok",
     after |-> 0]

\* the HTTP POST of send_text and send_buttons, and what it raises
Post(w, m) ==
    LET call(outcome) ==
            [w EXCEPT !.sent = Append(@, [m EXCEPT !.outcome = outcome,
                                                   !.after = Len(w.backend)])]
    IN { call("ok"),
         Raise(call("http_error"), "Exception"),
         Raise(call("bad_json"), "ValueError") }

send_text(w, body) ==
    IF w.exc # None THEN {w} ELSE Post(w, Message("text", body, <<>>))

send_buttons(w, body, buttons) ==
    IF w.exc # None THEN {w}
    ELSE LET payload == build_button_payload(buttons)
         IN IF payload = None THEN {Raise(w, "ValueError")}
            ELSE Post(w, Message("buttons", body, Val(payload)))

\* send_link delegates to send_text
send_link(w, body, url) == send_text(w, body)

(***************************************************************************)
(* backend_client.py: the assessment backend, through its client.          *)
(***************************************************************************)
SessionId(n) == [session |-> n]

BackendCall(w, name, session, answer_code, ok) ==
    [w EXCEPT !.backend = Append(@, [call |-> name, session_id |-> session,
                                     answer_code |-> answer_code, ok |-> ok,
                                     is_final |-> FALSE])]

\* start_session: a new session id, or an exception.  BackendSessionStartRequest
\* requires child_name and dob to be strings.
start_session(w, child_name, dob, gestational_weeks, locale) ==
    IF w.exc # None THEN {w}
    ELSE IF child_name = None \/ dob = None THEN {Raise(w, "ValueError")}
    ELSE { Raise(BackendCall(w, "start_session", None, None, FALSE), "Exception") }
         \cup
         (IF w.next_session > MaxSessions THEN {}
          ELSE { [BackendCall(w, "start_session", Some(SessionId(w.next_session)),
                              None, TRUE)
                     EXCEPT !.ret = Some(SessionId(w.next_session)),
                            !.next_session = @ + 1] })

\* query_assistant: one accumulated assistant turn (content, is_final), or an
\* exception.  BackendAssistantQueryRequest requires session_id to be a string.
\* finals: the values is_final may take in the answer.
query_assistant(w, session_id, answer_code, finals) ==
    IF w.exc # None THEN {w}
    ELSE IF session_id = None THEN {Raise(w, "ValueError")}
    ELSE { Raise(BackendCall(w, "query_assistant", session_id, answer_code, FALSE),
                 "Exception") }
         \cup
         { [BackendCall(w, "query_assistant", session_id, answer_code, TRUE)
               EXCEPT !.ret = Some([content |-> "question", is_final |-> f]),
                      !.backend[Len(w.backend) + 1].is_final = f]
           : f \in finals }

\* close_session: the summary counters, or an exception
close_session(w, session_id) ==
    IF w.exc # None THEN {w}
    ELSE IF session_id = None THEN {Raise(w, "ValueError")}
    ELSE { Raise(BackendCall(w, "close_session", session_id, None, FALSE), "Exception"),
           BackendCall(w, "close_session", session_id, None, TRUE) }

\* get_results: the results payload (here, whether the corrected age was
\* used), or an exception
get_results(w, session_id) ==
    IF w.exc # None THEN {w}
    ELSE { Raise(BackendCall(w, "get_results", session_id, None, FALSE), "Exception") }
         \cup
         { [BackendCall(w, "get_results", session_id, None, TRUE)
               EXCEPT !.ret = Some([using_corrected_age |-> c])] : c \in BOOLEAN }

(***************************************************************************)
(* backend_client.py: query_assistant reading the streamed reply           *)
(* (lines 99-129).  A line of the stream is one of: an empty line, a line  *)
(* that does not start with "data: ", the sentinel "data: [DONE]", a data  *)
(* line json.loads rejects, a data line holding a JSON value that is not   *)
(* an object, and a data line holding an event object.                     *)
(***************************************************************************)
\* a JSON member: absent, null, or a value
Absent == <<"absent">>
Null == <<"null">>
Str(text) == <<"str", text>>
Bool(b) == <<"bool", b>>
Object(n) == <<"object", n>>

SseLine(kind, content, is_final, metadata) ==
    [kind |-> kind, content |-> content, is_final |-> is_final,
     metadata |-> metadata]

\* the lines a stream of the model is made of
SseLines ==
    { SseLine("blank", Absent, Absent, Absent),
      SseLine("field", Absent, Absent, Absent),
      SseLine("done", Absent, Absent, Absent),
      SseLine("undecodable", Absent, Absent, Absent),
      SseLine("scalar", Absent, Absent, Absent),
      SseLine("event", Str(<<"H","e","l">>), Absent, Absent),
      SseLine("event", Str(<<"l","o"," ">>), Bool(TRUE), Object(1)),
      SseLine("event", Absent, Bool(TRUE), Absent),
      SseLine("event", Str(<<" ","a">>), Bool(FALSE), Object(2)),
      SseLine("event", Null, Absent, Absent),
      SseLine("event", Str(<<>>), Bool(TRUE), Null) }

\* the streams of the model: at most MaxLines lines
SseStreams == UNION {[1..n -> SseLines] : n \in 0..MaxLines}

\* query_assistant at `async for line in response.aiter_lines()`, nothing read
SseStart(lines) ==
    [lines |-> lines, i |-> 0, complete_content |-> <<>>, is_final |-> FALSE,
     metadata |-> None, pc |-> "loop", result |-> None]

\* no reply is being read
SseIdle == [SseStart(<<>>) EXCEPT !.pc = "idle"]

\* `if not line or not line.startswith("data: "): continue`
SseIsData(line) == line.kind \notin {"blank", "field"}

\* data.get("content", "")
SseContentChunk(line) ==
    IF line.content = Absent THEN Str(<<>>) ELSE line.content

\* `if data.get("is_final"):`
SseTruthy(v) == v = Bool(TRUE)

\* data.get("metadata")
SseMetadata(line) ==
    IF line.metadata \in {Absent, Null} THEN None ELSE Some(line.metadata)

\* `continue`: on to the next line
SseContinue(s) == [s EXCEPT !.i = @ + 1]

\* an exception leaves the loop and query_assistant (lines 134-136)
SseRaise(s) == [s EXCEPT !.i = @ + 1, !.pc = "raised"]

\* the undecodable line handled by the outer `except Exception: raise`
SseUndecodableRaising(s) == SseRaise(s)

\* `except json.JSONDecodeError: continue`
SseUndecodable(s) == SseContinue(s)

\* the body of the try block for a decoded event object (lines 115-120)
SseAccumulate(s, line) ==
    LET content_chunk == SseContentChunk(line)
    IN IF content_chunk[1] # "str" THEN SseRaise(s)
       ELSE [s EXCEPT !.i = @ + 1,
                      !.complete_content = @ \o content_chunk[2],
                      !.is_final = IF SseTruthy(line.is_final) THEN TRUE ELSE @,
                      !.metadata = IF SseTruthy(line.is_final)
                                   THEN SseMetadata(line) ELSE @]

\* the message built without .strip()
SseFinishUntrimmed(s) ==
    [s EXCEPT !.pc = "returned",
              !.result = Some([content |-> s.complete_content,
                               role |-> "assistant",
                               is_final |-> s.is_final,
                               metadata |-> s.metadata])]

\* a reply without a final event taken for a failure
SseFinishRequiringFinal(s) ==
    IF ~s.is_final THEN [s EXCEPT !.pc = "raised"]
    ELSE [s EXCEPT !.pc = "returned",
                   !.result = Some([content |-> Strip(s.complete_content),
                                    role |-> "assistant",
                                    is_final |-> s.is_final,
                                    metadata |-> s.metadata])]

\* BackendAssistantMessage(content=complete_content.strip(), ...) and return
SseFinish(s) ==
    [s EXCEPT !.pc = "returned",
              !.result = Some([content |-> Strip(s.complete_content),
                               role |-> "assistant",
                               is_final |-> s.is_final,
                               metadata |-> s.metadata])]

(***************************************************************************)
(* conversation_flow.py: ConversationFlowHandler.                          *)
(***************************************************************************)
Body(template, locale) ==
    [template |-> template, locale |-> locale, current |-> 0, session_id |-> None,
     corrected_note |-> FALSE]

\* templates.get_message(template, locale, ...)
Template(template, locale) ==
    Body(template, get_message(template, locale).locale)

\* save_state
save_state(w, phone) ==
    IF w.exc # None THEN {w}
    ELSE LET state_data == [Val(w.state_data) EXCEPT !.last_message_at = now]
         IN store_set([w EXCEPT !.state_data = Some(state_data)], phone, state_data)

\* get_state
get_state(w, phone) == IF w.exc # None THEN {w} ELSE store_get(w, phone)

\* clear_state
clear_state(w, phone) == IF w.exc # None THEN {w} ELSE store_delete(w, phone)

\* the rest of get_or_create_state returning the new record without writing
\* it to the store
GetOrCreateTailWithoutSet(w, phone) ==
    IF w.exc # None THEN {w}
    ELSE IF w.ret # None
         THEN {[w EXCEPT !.state_data = w.ret, !.loaded = w.ret]}
         ELSE LET state == ConversationStateData("NEW", now)
              IN {[w EXCEPT !.state_data = Some(state),
                            !.loaded = Some(state),
                            !.created = TRUE]}

\* the rest of get_or_create_state, once state_store.get has returned
GetOrCreateTail(w, phone) ==
    IF w.exc # None THEN {w}
    ELSE IF w.ret # None
         THEN {[w EXCEPT !.state_data = w.ret, !.loaded = w.ret]}
         ELSE LET state == ConversationStateData("NEW", now)
              IN Then(store_set(w, phone, state),
                      LAMBDA v : IF v.exc # None THEN {v}
                                 ELSE {[v EXCEPT !.state_data = Some(state),
                                                 !.loaded = Some(state),
                                                 !.created = TRUE]})

get_or_create_state(w, phone) ==
    IF w.exc # None THEN {w}
    ELSE Then(store_get(w, phone), LAMBDA v : GetOrCreateTail(v, phone))

\* an assignment to the local state_data
SetStep(w, step) ==
    IF w.exc # None THEN w
    ELSE [w EXCEPT !.state_data = Some([Val(@) EXCEPT !.current_step = step])]

handle_new_user(w, phone) ==
    Then(send_buttons(w, Body("WELCOME_MESSAGES", "en"), LANGUAGE_BUTTONS),
         LAMBDA v : save_state(SetStep(v, "LANGUAGE_SELECT"), phone))

\* SelectedLocale scanning in both directions, as the answer table is scanned
SelectedLocaleBothWays(message_text) ==
    LET message_lower == Strip(Lower(message_text))
        exact == TableGet(LANGUAGE_CODE_MAP, message_lower)
        partial == FirstMatch(LANGUAGE_CODE_MAP,
                              LAMBDA key : \/ Contains(message_lower, key)
                                           \/ Contains(key, message_lower))
    IN IF exact # None THEN Val(exact)
       ELSE IF partial # None THEN Val(partial)
       ELSE "en"

\* the locale handle_language_selection chooses
SelectedLocale(message_text) ==
    LET message_lower == Strip(Lower(message_text))
        exact == TableGet(LANGUAGE_CODE_MAP, message_lower)
        partial == FirstMatch(LANGUAGE_CODE_MAP,
                              LAMBDA key : Contains(message_lower, key))
    IN IF exact # None THEN Val(exact)
       ELSE IF partial # None THEN Val(partial)
       ELSE "en"

handle_language_selection(w, phone, message_text) ==
    LET locale == SelectedLocale(message_text)
        a == [w EXCEPT !.state_data =
                 Some([Val(@) EXCEPT !.collected_data.locale = Some(locale)])]
    IN Then(send_text(a, Template("ASK_NAME", locale)),
            LAMBDA v : save_state(SetStep(v, "ASK_NAME"), phone))

\* handle_name_input storing the text as received, without strip()
handle_name_input_untrimmed(w, phone, message_text) ==
    LET a == [w EXCEPT !.state_data =
                 Some([Val(@) EXCEPT !.collected_data.child_name =
                                         Some(message_text)])]
        locale == LocaleOr(Val(a.state_data).collected_data)
    IN Then(send_text(a, Template("ASK_DOB", locale)),
            LAMBDA v : save_state(SetStep(v, "ASK_DOB"), phone))

handle_name_input(w, phone, message_text) ==
    LET child_name == Strip(message_text)
        a == [w EXCEPT !.state_data =
                 Some([Val(@) EXCEPT !.collected_data.child_name = Some(child_name)])]
        locale == LocaleOr(Val(a.state_data).collected_data)
    IN Then(send_text(a, Template("ASK_DOB", locale)),
            LAMBDA v : save_state(SetStep(v, "ASK_DOB"), phone))

\* handle_dob_input moving on without storing the date it parsed
handle_dob_input_unstored(w, phone, message_text) ==
    LET locale == LocaleOr(Val(w.state_data).collected_data)
        dob_iso == parse_date(message_text)
    IN IF dob_iso = None \/ Val(dob_iso) = <<>>
       THEN send_text(w, Template("INVALID_DOB", locale))
       ELSE Then(send_buttons(w, Template("ASK_GESTATIONAL", locale),
                              YES_NO_BUTTONS),
                 LAMBDA v : save_state(SetStep(v, "ASK_GESTATIONAL"), phone))

handle_dob_input(w, phone, message_text) ==
    LET locale == LocaleOr(Val(w.state_data).collected_data)
        dob_iso == parse_date(message_text)
    IN IF dob_iso = None \/ Val(dob_iso) = <<>>
       THEN send_text(w, Template("INVALID_DOB", locale))
       ELSE LET a == [w EXCEPT !.state_data =
                         Some([Val(@) EXCEPT !.collected_data.dob = dob_iso])]
            IN Then(send_buttons(a, Template("ASK_GESTATIONAL", locale),
                                 YES_NO_BUTTONS),
                    LAMBDA v : save_state(SetStep(v, "ASK_GESTATIONAL"), phone))

\* send_question_with_buttons
send_question_with_buttons(w, phone, locale, question_number) ==
    send_buttons(w,
                 [Template("QUESTION_PROGRESS", locale)
                     EXCEPT !.current = question_number],
                 ANSWER_BUTTONS(locale))

\* the except branch of start_assessment, handle_assessment_answer and
\* complete_assessment: catch any exception, send the generic error message
SendError(w) ==
    IF w.exc = None THEN {w}
    ELSE send_text([w EXCEPT !.exc = None],
                   Template("ERROR_MESSAGES",
                            LocaleOr(Val(w.state_data).collected_data)))

\* the try block of start_assessment without `questions_asked += 1`
StartAssessmentTryKeepingCount(w, phone) ==
    LET cd == Val(w.state_data).collected_data
        locale == LocaleOr(cd)
    IN Then(Then(Then(Then(
           start_session(w, cd.child_name, cd.dob, cd.gestational_weeks, locale),
           LAMBDA v : IF v.exc # None THEN {v}
                      ELSE send_text(
                               [v EXCEPT !.state_data =
                                   Some([Val(@) EXCEPT !.session_id = v.ret])],
                               Template("STARTING_ASSESSMENT", locale))),
           LAMBDA v : query_assistant(v, Val(v.state_data).session_id, None,
                                      BOOLEAN)),
           LAMBDA v : IF v.exc # None THEN {v}
                      ELSE send_question_with_buttons(
                               v, phone, locale,
                               Val(v.state_data).questions_asked + 1)),
           LAMBDA v : save_state(SetStep(v, "ASSESSMENT"), phone))

\* the try block of start_assessment persisting the ASSESSMENT step as soon
\* as the session is started, before anything is sent
StartAssessmentTrySavingFirst(w, phone) ==
    LET cd == Val(w.state_data).collected_data
        locale == LocaleOr(cd)
    IN Then(Then(Then(Then(
           start_session(w, cd.child_name, cd.dob, cd.gestational_weeks, locale),
           LAMBDA v : IF v.exc # None THEN {v}
                      ELSE save_state(
                               [v EXCEPT !.state_data =
                                   Some([Val(@) EXCEPT
                                            !.session_id = v.ret,
                                            !.current_step = "ASSESSMENT",
                                            !.questions_asked = @ + 1])],
                               phone)),
           LAMBDA v : send_text(v, Template("STARTING_ASSESSMENT", locale))),
           LAMBDA v : query_assistant(v, Val(v.state_data).session_id, None,
                                      BOOLEAN)),
           LAMBDA v : IF v.exc # None THEN {v}
                      ELSE send_question_with_buttons(
                               v, phone, locale,
                               Val(v.state_data).questions_asked))

\* the try block of start_assessment
StartAssessmentTry(w, phone) ==
    LET cd == Val(w.state_data).collected_data
        locale == LocaleOr(cd)
    IN Then(Then(Then(Then(
           start_session(w, cd.child_name, cd.dob, cd.gestational_weeks, locale),
           LAMBDA v : IF v.exc # None THEN {v}
                      ELSE send_text(
                               [v EXCEPT !.state_data =
                                   Some([Val(@) EXCEPT !.session_id = v.ret])],
                               Template("STARTING_ASSESSMENT", locale))),
           LAMBDA v : query_assistant(v, Val(v.state_data).session_id, None,
                                      BOOLEAN)),
           LAMBDA v : IF v.exc # None THEN {v}
                      ELSE send_question_with_buttons(
                               v, phone, locale,
                               Val(v.state_data).questions_asked + 1)),
           LAMBDA v : IF v.exc # None THEN {v}
                      ELSE save_state(
                               [v EXCEPT !.state_data =
                                   Some([Val(@) EXCEPT
                                            !.current_step = "ASSESSMENT",
                                            !.questions_asked = @ + 1])],
                               phone))

\* start_assessment without its except branch
start_assessment_uncaught(w, phone) ==
    IF w.exc # None THEN {w} ELSE StartAssessmentTry(w, phone)

start_assessment(w, phone) ==
    IF w.exc # None THEN {w}
    ELSE Then(StartAssessmentTry(w, phone), SendError)

\* handle_gestational_question without `is_premature = True` in its
\* affirmative branch
handle_gestational_question_unmarked(w, phone, message_text) ==
    LET locale == LocaleOr(Val(w.state_data).collected_data)
        message_lower == Strip(Lower(message_text))
    IN IF message_lower \in AffirmativePhrases
       THEN Then(send_text(w, Template("ASK_GESTATIONAL_WEEKS", locale)),
                 LAMBDA v : save_state(SetStep(v, "ASK_GESTATIONAL_WEEKS"),
                                       phone))
       ELSE start_assessment(
                [w EXCEPT !.state_data =
                    Some([Val(@) EXCEPT
                             !.collected_data.is_premature = Some(FALSE),
                             !.collected_data.gestational_weeks = None])],
                phone)

handle_gestational_question(w, phone, message_text) ==
    LET locale == LocaleOr(Val(w.state_data).collected_data)
        message_lower == Strip(Lower(message_text))
    IN IF message_lower \in AffirmativePhrases
       THEN LET a == [w EXCEPT !.state_data =
                         Some([Val(@) EXCEPT
                                  !.collected_data.is_premature = Some(TRUE)])]
            IN Then(send_text(a, Template("ASK_GESTATIONAL_WEEKS", locale)),
                    LAMBDA v : save_state(SetStep(v, "ASK_GESTATIONAL_WEEKS"),
                                          phone))
       ELSE start_assessment(
                [w EXCEPT !.state_data =
                    Some([Val(@) EXCEPT
                             !.collected_data.is_premature = Some(FALSE),
                             !.collected_data.gestational_weeks = None])],
                phone)

\* the try block of handle_gestational_weeks accepting any run of digits of
\* the message that is in range, not the first run only
GestationalWeeksTryAnyRun(w, phone, message_text) ==
    LET locale == LocaleOr(Val(w.state_data).collected_data)
        runs == { SubSeq(message_text, a, b) :
                      a \in 1..Len(message_text), b \in 1..Len(message_text) }
        good == { r \in runs : /\ r # <<>>
                               /\ \A i \in 1..Len(r) : IsDigit(r[i])
                               /\ 24 <= ToInt(r) /\ ToInt(r) <= 42 }
    IN IF FirstDigitRun(message_text) = <<>> THEN {Raise(w, "IndexError")}
       ELSE IF good # {}
       THEN start_assessment(
                [w EXCEPT !.state_data =
                    Some([Val(@) EXCEPT
                             !.collected_data.gestational_weeks =
                                 Some(ToInt(CHOOSE r \in good : TRUE))])],
                phone)
       ELSE send_text(w, Template("INVALID_GESTATIONAL_WEEKS", locale))

\* the try block of handle_gestational_weeks
GestationalWeeksTry(w, phone, message_text) ==
    LET locale == LocaleOr(Val(w.state_data).collected_data)
        run == FirstDigitRun(message_text)
    IN IF run = <<>> THEN {Raise(w, "IndexError")}
       ELSE LET weeks == ToInt(run)
            IN IF 24 <= weeks /\ weeks <= 42
               THEN start_assessment(
                        [w EXCEPT !.state_data =
                            Some([Val(@) EXCEPT
                                     !.collected_data.gestational_weeks =
                                         Some(weeks)])],
                        phone)
               ELSE send_text(w, Template("INVALID_GESTATIONAL_WEEKS", locale))

handle_gestational_weeks(w, phone, message_text) ==
    Then(GestationalWeeksTry(w, phone, message_text),
         LAMBDA v :
             IF v.exc \in {Some("IndexError"), Some("ValueError")}
             THEN send_text([v EXCEPT !.exc = None],
                            Template("INVALID_GESTATIONAL_WEEKS",
                                     LocaleOr(Val(w.state_data).collected_data)))
             ELSE {v})

\* the try block of complete_assessment
CompleteAssessmentTry(w, phone) ==
    LET sd == Val(w.state_data)
        locale == LocaleOr(sd.collected_data)
    IN Then(Then(Then(
           close_session(w, sd.session_id),
           LAMBDA v : get_results(v, sd.session_id)),
           LAMBDA v : IF v.exc # None THEN {v}
                      ELSE send_link(
                               v,
                               [Template("ASSESSMENT_COMPLETE", locale)
                                   EXCEPT !.session_id = sd.session_id,
                                          !.corrected_note =
                                              Val(v.ret).using_corrected_age],
                               sd.session_id)),
           LAMBDA v : save_state(SetStep(v, "COMPLETED"), phone))

\* complete_assessment saving the COMPLETED step before it closes the session
complete_assessment_saving_first(w, phone) ==
    IF w.exc # None THEN {w}
    ELSE Then(Then(save_state(SetStep(w, "COMPLETED"), phone),
                   LAMBDA v : CompleteAssessmentTry(v, phone)),
              SendError)

\* complete_assessment delivering the results without persisting COMPLETED
complete_assessment_unsaved(w, phone) ==
    IF w.exc # None THEN {w}
    ELSE LET sd == Val(w.state_data)
             locale == LocaleOr(sd.collected_data)
         IN Then(Then(Then(
                close_session(w, sd.session_id),
                LAMBDA v : get_results(v, sd.session_id)),
                LAMBDA v : IF v.exc # None THEN {v}
                           ELSE send_link(
                                    v,
                                    [Template("ASSESSMENT_COMPLETE", locale)
                                        EXCEPT !.session_id = sd.session_id,
                                               !.corrected_note =
                                                   Val(v.ret).using_corrected_age],
                                    sd.session_id)),
                SendError)

complete_assessment(w, phone) ==
    IF w.exc # None THEN {w}
    ELSE Then(CompleteAssessmentTry(w, phone), SendError)

\* AnswerCode without the exact lookup: the containment scan alone
AnswerCodeScanOnly(message_text) ==
    LET answer_text_lower == Strip(Lower(message_text))
    IN FirstMatch(ANSWER_CODE_MAP,
                  LAMBDA key : \/ Contains(answer_text_lower, key)
                               \/ Contains(key, answer_text_lower))

\* the answer code handle_assessment_answer maps the text to, None if none
AnswerCode(message_text) ==
    LET answer_text_lower == Strip(Lower(message_text))
        exact == TableGet(ANSWER_CODE_MAP, answer_text_lower)
    IN IF exact # None THEN exact
       ELSE FirstMatch(ANSWER_CODE_MAP,
                       LAMBDA key : \/ Contains(answer_text_lower, key)
                                    \/ Contains(key, answer_text_lower))

\* the values is_final may take in the backend's answer to a forwarded answer:
\* the model lets the backend ask one more question only below MaxQuestions
FinalsAt(state_data) ==
    IF state_data.questions_asked < MaxQuestions THEN BOOLEAN ELSE {TRUE}

\* the try block of handle_assessment_answer counting the final turn as a
\* question
AssessmentAnswerTryCountingFinal(w, phone, answer_code) ==
    LET sd == Val(w.state_data)
        locale == LocaleOr(sd.collected_data)
    IN Then(query_assistant(w, sd.session_id, answer_code, FinalsAt(sd)),
            LAMBDA v :
                IF v.exc # None THEN {v}
                ELSE IF Val(v.ret).is_final
                THEN complete_assessment(
                         [v EXCEPT !.state_data =
                             Some([Val(@) EXCEPT !.questions_asked = @ + 1])],
                         phone)
                ELSE Then(send_question_with_buttons(
                              v, phone, locale, sd.questions_asked + 1),
                          LAMBDA u :
                              IF u.exc # None THEN {u}
                              ELSE save_state(
                                       [u EXCEPT !.state_data =
                                           Some([Val(@) EXCEPT
                                                    !.questions_asked = @ + 1])],
                                       phone)))

\* the try block of handle_assessment_answer counting from the stored record
\* instead of the record the handler loaded
AssessmentAnswerTryCountingStored(w, phone, answer_code) ==
    LET sd == Val(w.state_data)
        locale == LocaleOr(sd.collected_data)
    IN Then(query_assistant(w, sd.session_id, answer_code, FinalsAt(sd)),
            LAMBDA v :
                IF v.exc # None THEN {v}
                ELSE IF Val(v.ret).is_final
                THEN complete_assessment(v, phone)
                ELSE Then(send_question_with_buttons(
                              v, phone, locale, sd.questions_asked + 1),
                          LAMBDA u :
                              IF u.exc # None THEN {u}
                              ELSE save_state(
                                       [u EXCEPT !.state_data =
                                           Some([Val(@) EXCEPT
                                                    !.questions_asked =
                                                        IF u.store.memory_store[phone] = None
                                                        THEN @ + 1
                                                        ELSE model_validate_json(
                                                                 Val(u.store.memory_store[phone])
                                                             ).questions_asked + 1])],
                                       phone)))

\* the try block of handle_assessment_answer
AssessmentAnswerTry(w, phone, answer_code) ==
    LET sd == Val(w.state_data)
        locale == LocaleOr(sd.collected_data)
    IN Then(query_assistant(w, sd.session_id, answer_code, FinalsAt(sd)),
            LAMBDA v :
                IF v.exc # None THEN {v}
                ELSE IF Val(v.ret).is_final
                THEN complete_assessment(v, phone)
                ELSE Then(send_question_with_buttons(
                              v, phone, locale, sd.questions_asked + 1),
                          LAMBDA u :
                              IF u.exc # None THEN {u}
                              ELSE save_state(
                                       [u EXCEPT !.state_data =
                                           Some([Val(@) EXCEPT
                                                    !.questions_asked = @ + 1])],
                                       phone)))

handle_assessment_answer(w, phone, message_text) ==
    LET answer_code == AnswerCode(message_text)
    IN IF answer_code = None
       THEN send_text(w, Body("USE_THE_BUTTONS", "en"))
       ELSE Then(AssessmentAnswerTry(w, phone, answer_code), SendError)

\* handle_completed_session marking the record ABANDONED once it has
\* answered
handle_completed_session_abandoning(w, phone) ==
    Then(send_text(w, [Body("ALREADY_COMPLETE", "en")
                          EXCEPT !.session_id = Val(w.state_data).session_id]),
         LAMBDA v : save_state(SetStep(v, "ABANDONED"), phone))

handle_completed_session(w, phone) ==
    send_text(w, [Body("ALREADY_COMPLETE", "en")
                     EXCEPT !.session_id = Val(w.state_data).session_id])

\* restart_conversation without its clear_state
restart_keeping_state(w, phone) ==
    Then(get_or_create_state(w, phone),
         LAMBDA v : IF v.exc # None THEN {v} ELSE handle_new_user(v, phone))

restart_conversation(w, phone) ==
    Then(Then(clear_state(w, phone),
              LAMBDA v : get_or_create_state(v, phone)),
         LAMBDA v : IF v.exc # None THEN {v} ELSE handle_new_user(v, phone))

send_help(w, phone) ==
    Then(get_state(w, phone),
         LAMBDA v :
             IF v.exc # None THEN {v}
             ELSE LET locale ==
                          IF v.ret # None /\ Val(v.ret).collected_data.locale # None
                          THEN Val(Val(v.ret).collected_data.locale)
                          ELSE "en"
                  IN send_text(v, Template("HELP_MESSAGES", locale)))

\* the routing of handle_message on current_step
Route(w, phone, message_text) ==
    IF w.exc # None THEN {w}
    ELSE LET step == Val(w.state_data).current_step
         IN CASE step = "NEW" -> handle_new_user(w, phone)
              [] step = "LANGUAGE_SELECT" ->
                     handle_language_selection(w, phone, message_text)
              [] step = "ASK_NAME" -> handle_name_input(w, phone, message_text)
              [] step = "ASK_DOB" -> handle_dob_input(w, phone, message_text)
              [] step = "ASK_GESTATIONAL" ->
                     handle_gestational_question(w, phone, message_text)
              [] step = "ASK_GESTATIONAL_WEEKS" ->
                     handle_gestational_weeks(w, phone, message_text)
              [] step = "ASSESSMENT" ->
                     handle_assessment_answer(w, phone, message_text)
              [] step = "COMPLETED" -> handle_completed_session(w, phone)
              [] OTHER -> {w}

handle_message(w, phone, message_text) ==
    IF IsRestart(message_text) THEN restart_conversation(w, phone)
    ELSE IF IsHelp(message_text) THEN send_help(w, phone)
    ELSE Then(get_or_create_state(w, phone),
              LAMBDA v : Route(v, phone, message_text))

(***************************************************************************)
(* main.py and webhook_handler.py: the webhook boundary.                   *)
(***************************************************************************)
\* a WhapiMessage: from_me, type, text (None or its body), button_response
\* (None or its text) and the sender
WhapiMessage(from_me, type, text, button_response, from_) ==
    [from_me |-> from_me, type |-> type, text |-> text,
     button_response |-> button_response, from_ |-> from_]

\* a message as the transport sends it: the members WhapiMessage declares,
\* and `reply` (None, or the title of its buttons_reply), which it does not
RawMessage(from_me, type, text, button_response, reply, from_) ==
    [from_me |-> from_me, type |-> type, text |-> text,
     button_response |-> button_response, reply |-> reply, from_ |-> from_]

\* WhapiMessage(**item): pydantic keeps the declared fields and ignores the
\* other members of the item
WhapiMessageOf(raw) ==
    WhapiMessage(raw.from_me, raw.type, raw.text, raw.button_response, raw.from_)

\* the message_text process_message extracts, None for an unsupported message
MessageText(message) ==
    IF message.type = "text" /\ message.text # None THEN message.text
    ELSE IF message.type = "button" /\ message.button_response # None
    THEN message.button_response
    ELSE None

\* `except Exception as e: logger.error(...)`: the exception ends there
Logged(w) == [w EXCEPT !.exc = None, !.ret = None]

\* WebhookHandler.process_message without its try block
ProcessMessageUncaught(w, message) ==
    IF w.exc # None \/ message.from_me THEN {w}
    ELSE LET message_text == MessageText(message)
         IN IF message_text = None \/ Val(message_text) = <<>> THEN {w}
            ELSE handle_message(w, message.from_, Val(message_text))

\* WebhookHandler.process_message
ProcessMessage(w, message) ==
    IF w.exc # None \/ message.from_me THEN {w}
    ELSE LET message_text == MessageText(message)
         IN IF message_text = None \/ Val(message_text) = <<>> THEN {w}
            ELSE {Logged(v) : v \in handle_message(w, message.from_,
                                                   Val(message_text))}

\* `for message in item.messages: await self.process_message(message)`
RECURSIVE ProcessMessages(_, _)
ProcessMessages(S, messages) ==
    IF messages = <<>> THEN S
    ELSE ProcessMessages(UNION {ProcessMessage(w, Head(messages)) : w \in S},
                         Tail(messages))

\* one item of the payload in process_webhook: iterating over item.messages
\* raises TypeError when the item carries none
ProcessItem(w, item) ==
    IF w.exc # None THEN {w}
    ELSE IF item.type # "messages" \/ item.event # "post" THEN {w}
    ELSE IF item.messages = None THEN {Raise(w, "TypeError")}
    ELSE ProcessMessages({w}, Val(item.messages))

\* `for item in payload:`
RECURSIVE ProcessItems(_, _)
ProcessItems(S, payload) ==
    IF payload = <<>> THEN S
    ELSE ProcessItems(UNION {ProcessItem(w, Head(payload)) : w \in S},
                      Tail(payload))

\* WebhookHandler.process_webhook
process_webhook(w, payload) == ProcessItems({w}, payload)

\* process_webhook_background
process_webhook_background(w, payload) ==
    {Logged(v) : v \in process_webhook(w, payload)}

\* the answer of the webhook endpoint: the HTTP status, the status member of
\* the body and the payload handed to the background task, if any
Response(status_code, status, task) ==
    [status_code |-> status_code, status |-> status, task |-> task]

\* webhook: request.json(), the validation of the payload, add_task
webhook(request) ==
    IF request.body = "not_json" THEN Response(200, "error", None)
    ELSE IF request.body = "scalar" \/ \E i \in 1..Len(request.items) :
                                           ~request.items[i].valid
    THEN Response(200, "error", None)
    ELSE Response(200, "ok", Some(request.items))

(***************************************************************************)
(* main.py: the endpoint answers before the delivery is handled            *)
(* (add_task, then `return {"status": "ok"}`), and the handlers of         *)
(* successive deliveries are coroutines of one event loop.  A handler is   *)
(* followed here from one suspension to the next at two places: the call   *)
(* of get_or_create_state, and the end of handle_message.                  *)
(***************************************************************************)
Deliveries == 1..MaxDeliveries

\* the handler of a delivery: where it is, the message, the record
\* get_or_create_state returned and the record the handler saved, if any
DeliveryIdle ==
    [pc |-> "idle", phone |-> CHOOSE p \in Phones : TRUE, text |-> <<>>,
     state_data |-> None, saved |-> None]

\* handle_message up to the return of get_or_create_state; the special
\* commands run to their end
DeliveryBegin(w, phone, message_text) ==
    LET begun == [DeliveryIdle EXCEPT !.phone = phone, !.text = message_text]
    IN IF IsRestart(message_text) \/ IsHelp(message_text)
       THEN { [w |-> v, delivery |-> [begun EXCEPT !.pc = "done"]]
              : v \in handle_message(w, phone, message_text) }
       ELSE { [w |-> v,
               delivery |-> IF v.exc # None THEN [begun EXCEPT !.pc = "done"]
                            ELSE [begun EXCEPT !.pc = "loaded",
                                               !.state_data = v.state_data]]
              : v \in get_or_create_state(w, phone) }

\* handle_message from the return of get_or_create_state to its end
DeliveryEnd(w, delivery) ==
    { [w |-> v,
       delivery |-> [delivery EXCEPT !.pc = "done",
                                     !.saved = IF v.sets > 0 THEN v.state_data
                                               ELSE None]]
      : v \in Route([w EXCEPT !.state_data = delivery.state_data],
                    delivery.phone, delivery.text) }

(***************************************************************************)
(* webhook_handler.py: process_message, for a text message of a user.      *)
(* Whatever handle_message raises is caught and logged there.              *)
(***************************************************************************)
\* the inbound texts of the model
Texts ==
    { <<" ","R","e","s","t","a","r","t"," ">>,
      <<"H","E","L","P">>,
      <<"H","i","n","d","i">>,
      <<"1","5","/","0","3","/","2","0","2","4">>,
      <<"Y","e","s">>,
      <<" ","3","4"," ","w","e","e","k","s"," ">> }

\* everything handling one message can lead to: the worlds it may end in
Outcomes(phone, message_text) == handle_message(World, phone, message_text)

process_message(phone, message_text) ==
    /\ message_text # <<>>
    /\ \E w \in Outcomes(phone, message_text) :
           /\ store' = w.store
           /\ redis_db' = w.redis_db
           /\ degraded_logs' = w.degraded_logs
           /\ next_session' = w.next_session
    /\ UNCHANGED <<now, settings, sse, tasks, init_lock, attempts, inflight,
                   button_call>>

\* a time-to-live period passes: the Redis server drops the keys set before
Tick ==
    /\ now < MaxClock
    /\ now' = now + 1
    /\ redis_db' = [k \in Keys |-> None]
    /\ UNCHANGED <<store, degraded_logs, next_session, settings>>
    /\ UNCHANGED <<sse, tasks, init_lock, attempts, inflight, button_call>>

\* The state after construction.  settings holds what the store object reads
\* at construction: whether the redis package could be imported
\* (state_store.py:10-13, 33) and settings.allow_memory_state_store
\* (state_store.py:34; config.py declares no field of that name, so the value
\* is an input of the model).
Settings == [allow_memory_state_store : BOOLEAN,
             redis_module_available : BOOLEAN]

\* no reply is being streamed, no store coroutine and no delivery is suspended
Quiet ==
    /\ sse = SseIdle
    /\ tasks = [t \in Tasks |-> TaskIdle]
    /\ init_lock = None
    /\ attempts = 0
    /\ inflight = [d \in Deliveries |-> DeliveryIdle]
    /\ button_call = ButtonIdle

Init ==
    /\ store = NewStore
    /\ redis_db = [k \in Keys |-> None]
    /\ now = 0
    /\ next_session = 1
    /\ degraded_logs = 0
    /\ settings \in Settings
    /\ Quiet

Next ==
    \/ \E phone \in Phones, message_text \in Texts :
           process_message(phone, message_text)
    \/ Tick

Spec == Init /\ [][Next]_vars

(***************************************************************************)
(* What the claims speak about.                                            *)
(***************************************************************************)
\* the persisted record of phone in world w: what state_store.get returns
\* when its Redis command succeeds
Persisted(w, phone) ==
    LET data == IF UsesRedis(w) THEN w.redis_db[Key(phone)] ELSE None
        d == IF data = None THEN w.store.memory_store[phone] ELSE data
    IN IF d = None THEN None ELSE Some(model_validate_json(Val(d)))

\* the position of a member in the declaration order of ConversationState
StepRank(member) ==
    CHOOSE i \in 1..Len(ConversationState) : ConversationState[i][1] = member

\* how many of the messages an operation sent reached the user
DeliveredCount(w) == Cardinality({i \in 1..Len(w.sent) : Delivered(w.sent[i])})

\* the texts that are neither a restart phrase nor a help phrase
PlainTexts == {t \in Texts : ~IsRestart(t) /\ ~IsHelp(t)}

(***************************************************************************)
(* C1.  Every event other than a restart command leaves the persisted step *)
(* of an existing record unchanged or at a later member of the declared    *)
(* order: the step never moves back except through restart.                *)
(***************************************************************************)
C1_StepNeverMovesBack ==
    \A phone \in Phones, message_text \in Texts :
        (~IsRestart(message_text) /\ Persisted(World, phone) # None) =>
            \A w \in Outcomes(phone, message_text) :
                Persisted(w, phone) # None =>
                    StepRank(Val(Persisted(w, phone)).current_step)
                        >= StepRank(Val(Persisted(World, phone)).current_step)

(***************************************************************************)
(* C2.  A restart phrase, in any case and with surrounding whitespace,     *)
(* from any prior state, no record included, leaves the persisted record   *)
(* with empty collected data, no session and no question asked, at step    *)
(* LANGUAGE_SELECT once the welcome message is sent, at step NEW when      *)
(* sending it failed; where the store cannot be initialised, nothing is    *)
(* persisted.                                                              *)
(***************************************************************************)
\* restart phrases as a user may type them
RestartTexts ==
    { <<" ","R","e","s","t","a","r","t"," ">>,
      <<"s","t","a","r","t"," ","o","v","e","r">>,
      <<"N","E","W">> }

\* a record that holds nothing of an earlier conversation
StartsOver(r) ==
    /\ r.collected_data = CollectedData
    /\ r.session_id = None
    /\ r.questions_asked = 0
    /\ r.last_question_id = None

C3_SessionIdWrittenOnce ==
    \A phone \in Phones, message_text \in Texts :
        (~IsRestart(message_text) /\ Persisted(World, phone) # None) =>
            \A w \in Outcomes(phone, message_text) :
                Persisted(w, phone) # None =>
                    LET before == Val(Persisted(World, phone))
                        after == Val(Persisted(w, phone))
                    IN IF before.session_id # None
                       THEN after.session_id = before.session_id
                       ELSE after.session_id # None =>
                                /\ before.current_step \in
                                       {"ASK_GESTATIONAL", "ASK_GESTATIONAL_WEEKS"}
                                /\ after.current_step = "ASSESSMENT"

(***************************************************************************)
(* C10.  A failure of the durable backend is not visible to the            *)
(* conversation: get returns the record last set for the identifier, and   *)
(* a message is handled from that record, not from a newly created one.    *)
(***************************************************************************)
C10_FailureNotVisible ==
    \A phone \in Phones :
        Persisted(World, phone) # None =>
            /\ \A w \in store_get(World, phone) :
                   w.ret = Persisted(World, phone)
            /\ \A message_text \in PlainTexts :
                   \A w \in Outcomes(phone, message_text) :
                       /\ ~w.created
                       /\ w.loaded = Persisted(World, phone)

(***************************************************************************)
(* C4.  On a validation failure (a text parse_date rejects in ASK_DOB; a   *)
(* text without a number, or with one outside 24..42, in                   *)
(* ASK_GESTATIONAL_WEEKS; a text matching no answer in ASSESSMENT) the     *)
(* persisted record is left as it was, one corrective message is sent and  *)
(* no backend call is made.                                                *)
(***************************************************************************)
\* the corrective message of each step that validates its input
Corrective ==
    [ASK_DOB |-> "INVALID_DOB",
     ASK_GESTATIONAL_WEEKS |-> "INVALID_GESTATIONAL_WEEKS",
     ASSESSMENT |-> "USE_THE_BUTTONS"]

\* the record state_data holds an input the step of that record rejects
FailsValidation(state_data, message_text) ==
    CASE state_data.current_step = "ASK_DOB" -> parse_date(message_text) = None
      [] state_data.current_step = "ASK_GESTATIONAL_WEEKS" ->
             \/ FirstDigitRun(message_text) = <<>>
             \/ ToInt(FirstDigitRun(message_text)) < 24
             \/ ToInt(FirstDigitRun(message_text)) > 42
      [] state_data.current_step = "ASSESSMENT" -> AnswerCode(message_text) = None
      [] OTHER -> FALSE

C4_ValidationFailure ==
    \A phone \in Phones, message_text \in PlainTexts :
        \A w \in Outcomes(phone, message_text) :
            (w.loaded # None /\ FailsValidation(Val(w.loaded), message_text)) =>
                /\ Persisted(w, phone) = w.loaded
                /\ w.sets = 0
                /\ w.backend = <<>>
                /\ \A i \in 1..Len(w.sent) :
                       w.sent[i].body.template =
                           Corrective[Val(w.loaded).current_step]
                /\ DeliveredCount(w) <= 1
                /\ w.exc = None => DeliveredCount(w) = 1

(***************************************************************************)
(* C7.  A help phrase, in any state, sends one help message in the stored  *)
(* locale, English when none is stored, and changes nothing in the state   *)
(* store: the record is not modified and none is created.                  *)
(***************************************************************************)
\* help phrases as a user may type them
HelpTexts == { <<"H","E","L","P">>, <<" ","i","n","f","o"," ">> }

C7_HelpChangesNothing ==
    \A phone \in Phones, message_text \in HelpTexts :
        /\ IsHelp(message_text)
        /\ store.initialized =>
               \A w \in Outcomes(phone, message_text) :
                   /\ Len(w.sent) = 1
                   /\ w.sent[1].body.template = "HELP_MESSAGES"
                   /\ w.sent[1].body.locale =
                          IF Persisted(World, phone) = None THEN "en"
                          ELSE LocaleOr(Val(Persisted(World, phone)).collected_data)
                   /\ w.sets = 0
                   /\ Persisted(w, phone) = Persisted(World, phone)

(***************************************************************************)
(* C5.  When a step of the start-assessment sequence fails (starting the   *)
(* session, sending the starting message, querying the first question,     *)
(* sending the first question), the generic error message is sent in the   *)
(* record's locale and the persisted record is as before the event.        *)
(***************************************************************************)
\* the record and the text take handle_message into start_assessment
StartsAssessment(state_data, message_text) ==
    \/ /\ state_data.current_step = "ASK_GESTATIONAL"
       /\ Strip(Lower(message_text)) \notin AffirmativePhrases
    \/ /\ state_data.current_step = "ASK_GESTATIONAL_WEEKS"
       /\ ~FailsValidation(state_data, message_text)

\* a backend call of the operation failed, or a send of one of the templates
FailedIn(w, templates) ==
    \/ \E i \in 1..Len(w.backend) : ~w.backend[i].ok
    \/ \E i \in 1..Len(w.sent) :
           /\ w.sent[i].body.template \in templates
           /\ w.sent[i].outcome # "ok"

\* the generic error message was sent in the locale of the loaded record
ErrorSent(w) ==
    \E i \in 1..Len(w.sent) :
        /\ w.sent[i].body.template = "ERROR_MESSAGES"
        /\ w.sent[i].body.locale = LocaleOr(Val(w.loaded).collected_data)

C5_StartFailureLeavesRecord ==
    \A phone \in Phones, message_text \in PlainTexts :
        \A w \in Outcomes(phone, message_text) :
            ( /\ w.loaded # None
              /\ StartsAssessment(Val(w.loaded), message_text)
              /\ FailedIn(w, {"STARTING_ASSESSMENT", "QUESTION_PROGRESS"}) ) =>
                /\ ErrorSent(w)
                /\ w.sets = 0
                /\ Persisted(w, phone) = w.loaded
                /\ Persisted(w, phone) = Persisted(World, phone)

\* C5, witness: the session was started and the first question fetched, but
\* sending the question failed; the error message went out
C5_Witness ==
    \E phone \in Phones, message_text \in PlainTexts :
        \E w \in Outcomes(phone, message_text) :
            /\ w.loaded # None
            /\ StartsAssessment(Val(w.loaded), message_text)
            /\ Len(w.backend) = 2
            /\ \A i \in 1..2 : w.backend[i].ok
            /\ FailedIn(w, {"QUESTION_PROGRESS"})
            /\ ErrorSent(w)
            /\ w.exc = None
            /\ Val(Persisted(w, phone)).session_id = None

(***************************************************************************)
(* C6.  The persisted step becomes COMPLETED only after closing the        *)
(* session, fetching the results and sending the completion message have   *)
(* succeeded, in that order; when one of them fails, the generic error     *)
(* message is sent and the persisted step stays ASSESSMENT.                *)
(***************************************************************************)
\* complete_assessment was entered: it called close_session
CompletionAttempted(w) ==
    \E i \in 1..Len(w.backend) : w.backend[i].call = "close_session"

\* close_session, then get_results, then the completion message: all succeeded
CompletionSucceeded(w) ==
    \E i \in 1..Len(w.backend), j \in 1..Len(w.backend), k \in 1..Len(w.sent) :
        /\ i < j
        /\ w.backend[i].call = "close_session" /\ w.backend[i].ok
        /\ w.backend[j].call = "get_results" /\ w.backend[j].ok
        /\ w.sent[k].body.template = "ASSESSMENT_COMPLETE"
        /\ w.sent[k].outcome = "ok"
        /\ w.sent[k].after >= j

C6_CompletedOnlyAfterSuccess ==
    \A phone \in Phones, message_text \in Texts :
        \A w \in Outcomes(phone, message_text) :
            /\ ( /\ Persisted(w, phone) # None
                 /\ Val(Persisted(w, phone)).current_step = "COMPLETED"
                 /\ Persisted(World, phone) # Persisted(w, phone) ) =>
                   CompletionSucceeded(w)
            /\ (CompletionAttempted(w) /\ ~CompletionSucceeded(w)) =>
                   /\ ErrorSent(w)
                   /\ w.sets = 0
                   /\ Persisted(w, phone) = w.loaded
                   /\ Val(w.loaded).current_step = "ASSESSMENT"

\* C6, witness: an assessment is completed by one answer, and the same answer
\* leaves it at ASSESSMENT when the completion message cannot be delivered
C6_Witness ==
    \E phone \in Phones, message_text \in PlainTexts :
        /\ Persisted(World, phone) # None
        /\ Val(Persisted(World, phone)).current_step = "ASSESSMENT"
        /\ \E w \in Outcomes(phone, message_text) :
               /\ CompletionSucceeded(w)
               /\ Persisted(w, phone) # None
               /\ Val(Persisted(w, phone)).current_step = "COMPLETED"
        /\ \E w \in Outcomes(phone, message_text) :
               /\ CompletionAttempted(w)
               /\ FailedIn(w, {"ASSESSMENT_COMPLETE"})
               /\ ErrorSent(w)
               /\ Val(Persisted(w, phone)).current_step = "ASSESSMENT"

(***************************************************************************)
(* C8.  For a valid state s and an identifier, set followed by get returns *)
(* a state equal to s: in durable mode (the Redis GET answers), in         *)
(* volatile mode, and when the set itself demotes the store.               *)
(***************************************************************************)
\* records with every optional field absent, and with every field present
ValidStates ==
    { [ConversationStateData(ConversationState[i][1], t) EXCEPT
           !.collected_data =
               IF full
               THEN [locale |-> Some("hi"),
                     child_name |-> Some(<<"S","i","a">>),
                     dob |-> IsoDate(2024, 3, 15),
                     is_premature |-> Some(TRUE),
                     gestational_weeks |-> Some(34)]
               ELSE CollectedData,
           !.session_id = IF full THEN Some(SessionId(1)) ELSE None,
           !.questions_asked = IF full THEN MaxQuestions ELSE 0,
           !.last_question_id = IF full THEN Some(<<"q","1">>) ELSE None]
      : i \in 1..Len(ConversationState), t \in 0..MaxClock, full \in BOOLEAN }

\* no Redis command of the operation failed
RedisAnswered(w) == \A i \in 1..Len(w.redis_calls) : w.redis_calls[i].ok

\* set(phone, s) followed by get(phone): the worlds after the get, the
\* commands of the get alone in redis_calls
SetThenGet(phone, s) ==
    Then({w \in store_set(World, phone, s) : w.exc = None},
         LAMBDA w : store_get([w EXCEPT !.redis_calls = <<>>], phone))

Operations(phone) ==
    store_get(World, phone) \cup store_delete(World, phone)
        \cup UNION {store_set(World, phone, s) : s \in ValidStates}
        \cup UNION {Outcomes(phone, t) : t \in Texts}

C9_DemotionOneWay ==
    \A phone \in Phones :
        \A w \in Operations(phone) :
            /\ store.memory_only_mode =>
                   /\ w.store.memory_only_mode
                   /\ ~w.store.redis_available
                   /\ w.redis_calls = <<>>
                   /\ w.redis_db = redis_db
            /\ \A i \in 1..Len(w.redis_calls) :
                   ~w.redis_calls[i].ok => i = Len(w.redis_calls)
            /\ w.store.memory_only_mode => ~w.store.redis_available

\* C9, witness: the store was demoted while it held a client, Redis still
\* holds a record, and a message is handled and saved without a command
C9_Witness ==
    \E phone \in Phones, message_text \in PlainTexts :
        /\ store.memory_only_mode
        /\ store.redis # None
        /\ redis_db[Key(phone)] # None
        /\ \E w \in Outcomes(phone, message_text) :
               /\ w.sets > 0
               /\ w.redis_calls = <<>>
               /\ w.store.memory_only_mode

(***************************************************************************)
(* C14.  A record is gone once its time-to-live has elapsed since the last *)
(* set: after a time-to-live period without a set, get returns an absent   *)
(* result, without an exception, for every identifier, in durable and in   *)
(* volatile mode.                                                          *)
(***************************************************************************)
\* the world at the start of an operation in the next state
WorldAfter ==
    [World EXCEPT !.store = store', !.redis_db = redis_db',
                  !.degraded_logs = degraded_logs',
                  !.next_session = next_session']

C14_ExpiresAfterTtl ==
    [][ (now' = now + 1 /\ store.initialized) =>
            \A phone \in Phones :
                \A w \in store_get(WorldAfter, phone) :
                    w.exc = None /\ w.ret = None
      ]_vars

(***************************************************************************)
(* C15.  Whatever happens while a delivery is handled, the endpoint        *)
(* answers the transport with success and no exception leaves the          *)
(* processing of a message or of the delivery.                             *)
(***************************************************************************)
\* the messages of the model: the texts, a button reply, a message of ours,
\* a message without text, an empty text
Messages ==
    { WhapiMessage(FALSE, "text", Some(t), None, p) : t \in Texts, p \in Phones }
    \cup
    { WhapiMessage(from_me, type, text, None, p) :
          from_me \in BOOLEAN, type \in {"text", "image"},
          text \in {None, Some(<<>>)}, p \in Phones }
    \cup
    { WhapiMessage(FALSE, "button", None, Some(<<"Y","e","s">>), p) : p \in Phones }

\* an item of a payload: whether WhapiWebhookPayload accepts it, its event
\* and its messages
Item(valid, type, event, messages) ==
    [valid |-> valid, type |-> type, event |-> event, messages |-> messages]

\* the requests of the model: a body that is not JSON, a JSON value that is
\* neither an object nor a list, and payloads of one or two items
Requests ==
    { [body |-> b, items |-> <<>>] : b \in {"not_json", "scalar", "json"} }
    \cup
    { [body |-> "json", items |-> <<Item(FALSE, "messages", "post", None)>>],
      [body |-> "json", items |-> <<Item(TRUE, "messages", "post", None)>>],
      [body |-> "json", items |-> <<Item(TRUE, "statuses", "post", None)>>],
      [body |-> "json",
       items |-> <<Item(TRUE, "messages", "put", None),
                   Item(TRUE, "messages", "post",
                        Some(<<WhapiMessage(TRUE, "text", Some(<<"Y","e","s">>),
                                            None, CHOOSE p \in Phones : TRUE),
                               WhapiMessage(FALSE, "text", Some(<<"Y","e","s">>),
                                            None, CHOOSE p \in Phones : TRUE)>>))>>] }

C15_BoundaryReportsSuccess ==
    /\ \A request \in Requests :
           /\ webhook(request).status_code = 200
           /\ webhook(request).task # None =>
                  \A w \in process_webhook_background(
                               World, Val(webhook(request).task)) :
                      w.exc = None
    /\ \A message \in Messages :
           \A w \in ProcessMessage(World, message) : w.exc = None

\* C15, witness: handling a text raises in the state machine (the store
\* cannot be initialized, or sending the error message fails), and a
\* delivery whose item carries no messages raises in process_webhook
C15_Witness ==
    /\ \E message \in Messages :
           /\ MessageText(message) # None
                  /\ Persisted(World, message.from_) # None
           /\ Val(Persisted(World, message.from_)).current_step = "ASSESSMENT"
           /\ \E v \in handle_message(World, message.from_,
                                      Val(MessageText(message))) :
                  /\ v.exc # None
                  /\ v.backend # <<>>
                  /\ v.sent # <<>>
    /\ \E request \in Requests :
           /\ webhook(request).task # None
           /\ \E v \in process_webhook(World, Val(webhook(request).task)) :
                  v.exc = Some("TypeError")

(***************************************************************************)
(* StreamSpec: query_assistant reads one streamed reply, line by line.     *)
(***************************************************************************)
SseRest == <<store, redis_db, now, next_session, degraded_logs, settings,
             tasks, init_lock, attempts, inflight, button_call>>

\* the line the loop is about to read
SseLineAt(s) == s.lines[s.i + 1]

SseReading == sse.pc = "loop" /\ sse.i < Len(sse.lines)

\* an empty line or a line that is not a data line
skip_line ==
    /\ SseReading
    /\ ~SseIsData(SseLineAt(sse))
    /\ sse' = SseContinue(sse)
    /\ UNCHANGED SseRest

\* a data line json.loads rejects
skip_undecodable ==
    /\ SseReading
    /\ SseLineAt(sse).kind = "undecodable"
    /\ sse' = SseUndecodable(sse)
    /\ UNCHANGED SseRest

\* a data line holding an event object
read_event ==
    /\ SseReading
    /\ SseLineAt(sse).kind = "event"
    /\ sse' = SseAccumulate(sse, SseLineAt(sse))
    /\ UNCHANGED SseRest

\* a data line holding a JSON value without a get method: AttributeError
read_scalar ==
    /\ SseReading
    /\ SseLineAt(sse).kind = "scalar"
    /\ sse' = SseRaise(sse)
    /\ UNCHANGED SseRest

\* "data: [DONE]": break, then the message is built and returned
read_done ==
    /\ SseReading
    /\ SseLineAt(sse).kind = "done"
    /\ sse' = SseFinish(SseContinue(sse))
    /\ UNCHANGED SseRest

\* the stream ends: the message is built and returned
end_of_stream ==
    /\ sse.pc = "loop"
    /\ sse.i = Len(sse.lines)
    /\ sse' = SseFinish(sse)
    /\ UNCHANGED SseRest

\* the store and the deliveries take no part: they stay as constructed
StreamInit ==
    /\ store = NewStore
    /\ redis_db = [k \in Keys |-> None]
    /\ now = 0
    /\ next_session = 1
    /\ degraded_logs = 0
    /\ settings = [allow_memory_state_store |-> FALSE,
                   redis_module_available |-> TRUE]
    /\ tasks = [t \in Tasks |-> TaskIdle]
    /\ init_lock = None
    /\ attempts = 0
    /\ inflight = [d \in Deliveries |-> DeliveryIdle]
    /\ button_call = ButtonIdle
    /\ sse \in {SseStart(lines) : lines \in SseStreams}

StreamNext ==
    \/ skip_line
    \/ skip_undecodable
    \/ read_event
    \/ read_scalar
    \/ read_done
    \/ end_of_stream

StreamSpec == StreamInit /\ [][StreamNext]_vars

(***************************************************************************)
(* StoreSpec: coroutines call get, set and delete on one store.            *)
(***************************************************************************)
MaxAttempts == 3

\* a step of coroutine t takes effect
TaskApply(t, r) ==
    /\ store' = r.w.store
    /\ redis_db' = r.w.redis_db
    /\ degraded_logs' = r.w.degraded_logs
    /\ tasks' = [tasks EXCEPT ![t] = r.task]
    /\ init_lock' = r.lock
    /\ attempts' = attempts + r.attempt
    /\ UNCHANGED <<now, next_session, settings, sse, inflight, button_call>>

\* the model stops starting initialization attempts at MaxAttempts
MayAttempt == store.initialized \/ attempts < MaxAttempts

\* a coroutine calls get, set or delete: _ensure_ready, then the call up to
\* its first suspension.  asyncio.Lock.acquire suspends the caller when the
\* lock is held or another coroutine already waits for it.
store_call(t, op, phone, state) ==
    /\ tasks[t].pc = "idle"
    /\ MayAttempt
    /\ LET task == [TaskIdle EXCEPT
                       !.op = op, !.phone = phone,
                       !.payload = IF op = "set" THEN Some(model_dump_json(state))
                                   ELSE None]
       IN IF store.initialized
          THEN TaskApply(t, [TaskBody(World, task) EXCEPT !.lock = init_lock])
          ELSE IF init_lock # None \/ \E u \in Tasks : tasks[u].pc = "lock"
          THEN TaskApply(t, TaskStep(World, [task EXCEPT !.pc = "lock"],
                                     init_lock, 0))
          ELSE TaskApply(t, TaskInitialize(World, t, task))

\* a coroutine waiting for _init_lock gets it
lock_acquired(t) ==
    /\ tasks[t].pc = "lock"
    /\ init_lock = None
    /\ MayAttempt
    /\ TaskApply(t, TaskInitialize(World, t, tasks[t]))

\* the ping of initialize returns or raises; the lock is released
ping_done(t, ok) ==
    /\ tasks[t].pc = "ping"
    /\ LET v == PingReturn(World, ok)
           task == [tasks[t] EXCEPT !.failed = ~ok]
       IN TaskApply(t, IF v.exc # None THEN TaskDone(v, task)
                       ELSE TaskBody(v, task))

\* the Redis command of get, set or delete returns or raises
redis_done(t, ok) ==
    /\ tasks[t].pc = "redis"
    /\ TaskApply(t, TaskReturn(World, tasks[t], ok))

StoreNext ==
    \E t \in Tasks :
        \/ \E op \in StoreOps, phone \in Phones, state \in TaskStates :
               store_call(t, op, phone, state)
        \/ lock_acquired(t)
        \/ \E ok \in BOOLEAN : ping_done(t, ok)
        \/ \E ok \in BOOLEAN : redis_done(t, ok)

StoreSpec == Init /\ [][StoreNext]_vars

(***************************************************************************)
(* RaceSpec: the transport delivers a message while another is handled.    *)
(***************************************************************************)
\* the texts of the deliveries
RaceTexts ==
    { <<"1","5","/","0","3","/","2","0","2","4">>,
      <<"Y","e","s">> }

\* a step of the handler of delivery d takes effect
DeliveryApply(d, r) ==
    /\ store' = r.w.store
    /\ redis_db' = r.w.redis_db
    /\ degraded_logs' = r.w.degraded_logs
    /\ next_session' = r.w.next_session
    /\ inflight' = [inflight EXCEPT ![d] = r.delivery]
    /\ UNCHANGED <<now, settings, sse, tasks, init_lock, attempts, button_call>>

\* the webhook answers the transport and the background task starts
deliver(d, phone, message_text) ==
    /\ inflight[d].pc \in {"idle", "done"}
    /\ \E r \in DeliveryBegin(World, phone, message_text) : DeliveryApply(d, r)

\* the handler goes on from get_or_create_state to its end
resume(d) ==
    /\ inflight[d].pc = "loaded"
    /\ \E r \in DeliveryEnd(World, inflight[d]) : DeliveryApply(d, r)

RaceNext ==
    \E d \in Deliveries :
        \/ \E phone \in Phones, message_text \in RaceTexts :
               deliver(d, phone, message_text)
        \/ resume(d)

\* the store of the deliveries is the in-process one: the redis package is
\* missing and ALLOW_MEMORY_STATE_STORE is set, as in the repository's tests
\* (tests/test_conversation_flow.py:12)
RaceInit ==
    /\ Init
    /\ settings = [allow_memory_state_store |-> TRUE,
                   redis_module_available |-> FALSE]

RaceSpec == RaceInit /\ [][RaceNext]_vars

(***************************************************************************)
(* ButtonSpec: one call of WhapiClient._build_button_payload on a list of  *)
(* labels.                                                                 *)
(***************************************************************************)
\* labels: empty, blank, plain, padded, and a padded one longer than 20
\* characters
ButtonLabels ==
    { <<>>,
      <<" ">>,
      <<"Y","e","s">>,
      <<" ","N","o"," ">>,
      <<" ","N","o","t"," ","s","u","r","e",","," ","a","s","k"," ","m","e",
        " ","n","o","w"," ","o","r"," ","l","a","t","e","r">> }

RECURSIVE ButtonLists(_)
\* the lists of n labels or fewer
ButtonLists(n) ==
    IF n = 0 THEN {<<>>}
    ELSE LET shorter == ButtonLists(n - 1)
         IN shorter \cup {Append(l, b) : l \in shorter, b \in ButtonLabels}

\* _build_button_payload returns or raises
build_payload ==
    /\ button_call.pc = "called"
    /\ button_call' = ButtonReturn(button_call)
    /\ UNCHANGED <<store, redis_db, now, next_session, degraded_logs, settings,
                   sse, tasks, init_lock, attempts, inflight>>

ButtonInit ==
    /\ store = NewStore
    /\ redis_db = [k \in Keys |-> None]
    /\ now = 0
    /\ next_session = 1
    /\ degraded_logs = 0
    /\ settings = [allow_memory_state_store |-> FALSE,
                   redis_module_available |-> TRUE]
    /\ sse = SseIdle
    /\ tasks = [t \in Tasks |-> TaskIdle]
    /\ init_lock = None
    /\ attempts = 0
    /\ inflight = [d \in Deliveries |-> DeliveryIdle]
    /\ button_call \in {ButtonCall(buttons) : buttons \in ButtonLists(MaxButtons)}

ButtonNext == build_payload

ButtonSpec == ButtonInit /\ [][ButtonNext]_vars

(***************************************************************************)
(* One conversation in which nothing fails: the user sends, one message at *)
(* a time, texts the current step accepts, and every call of the store,    *)
(* of the delivery client and of the backend succeeds.  The backend marks  *)
(* a turn final at the latest after MaxQuestions questions (FinalsAt).     *)
(* No time-to-live period ends during the conversation.                    *)
(***************************************************************************)
\* what the user may send in that conversation
ProgressTexts ==
    PlainTexts \cup { <<"E","n","g","l","i","s","h">>, <<"N","o">> }

\* no call the handler made failed
NoFailure(w) ==
    /\ w.exc = None
    /\ \A i \in 1..Len(w.redis_calls) : w.redis_calls[i].ok
    /\ \A i \in 1..Len(w.sent) : w.sent[i].outcome = "ok"
    /\ \A i \in 1..Len(w.backend) : w.backend[i].ok

\* the text is no command and the step of the record, if there is one,
\* does not reject it
ValidFor(phone, message_text) ==
    /\ ~IsRestart(message_text)
    /\ ~IsHelp(message_text)
    /\ Persisted(World, phone) # None =>
           ~FailsValidation(Val(Persisted(World, phone)), message_text)

\* WebhookHandler.process_message for such a text, every call succeeding
process_valid_message(phone, message_text) ==
    /\ message_text # <<>>
    /\ ValidFor(phone, message_text)
    /\ \E w \in Outcomes(phone, message_text) :
           /\ NoFailure(w)
           /\ store' = w.store
           /\ redis_db' = w.redis_db
           /\ degraded_logs' = w.degraded_logs
           /\ next_session' = w.next_session
    /\ UNCHANGED <<now, settings, sse, tasks, init_lock, attempts, inflight,
                   button_call>>

\* the configurations in which the store can run without a failing call
ProgressInit ==
    /\ Init
    /\ settings.redis_module_available \/ settings.allow_memory_state_store

ProgressNext ==
    \E phone \in Phones, message_text \in ProgressTexts :
        process_valid_message(phone, message_text)

\* ENABLED <<ProgressNext>>_vars written as a state predicate: some valid
\* text has an outcome without failure that changes the state
CanProgress ==
    \E phone \in Phones, message_text \in ProgressTexts :
        /\ ValidFor(phone, message_text)
        /\ \E w \in Outcomes(phone, message_text) :
               /\ NoFailure(w)
               /\ <<w.store, w.redis_db, w.degraded_logs, w.next_session>>
                      # <<store, redis_db, degraded_logs, next_session>>

\* weak fairness of ProgressNext, WF_vars(ProgressNext) with its ENABLED
\* written out: the user goes on answering, and a handler that was started
\* runs to its end
ProgressFairness == []<>(~CanProgress) \/ []<><<ProgressNext>>_vars

ProgressSpec == ProgressInit /\ [][ProgressNext]_vars /\ ProgressFairness

(***************************************************************************)
(* The streamed reply: what the claims speak about.                        *)
(***************************************************************************)
\* the lines received before the sentinel
SseBeforeSentinel(lines) ==
    LET dones == {i \in 1..Len(lines) : lines[i].kind = "done"}
    IN IF dones = {} THEN lines
       ELSE SubSeq(lines, 1, (CHOOSE i \in dones : \A j \in dones : i <= j) - 1)

\* the decoded events among lines
SseEvents(lines) == SelectSeq(lines, LAMBDA line : line.kind = "event")

\* every data line that decodes holds an event record: an object whose text
\* fragment, when it has one, is a text
SseEventRecords(lines) ==
    \A i \in 1..Len(lines) :
        /\ lines[i].kind # "scalar"
        /\ lines[i].kind = "event" => lines[i].content[1] \in {"absent", "str"}

\* the text fragments of events, concatenated in order
RECURSIVE SseFragments(_)
SseFragments(events) ==
    IF events = <<>> THEN <<>>
    ELSE (IF Head(events).content[1] = "str" THEN Head(events).content[2]
          ELSE <<>>) \o SseFragments(Tail(events))

\* the positions of the events that carry the final flag
SseFlagged(events) ==
    {i \in 1..Len(events) : events[i].is_final = Bool(TRUE)}

\* the metadata the last final-flagged event carries, None when it has none
SseTerminalMetadata(events) ==
    LET last == CHOOSE i \in SseFlagged(events) :
                    \A j \in SseFlagged(events) : j <= i
        m == events[last].metadata
    IN IF m[1] = "object" THEN Some(m) ELSE None

\* C18: for any sequence of event records, the accumulator returns the
\* whitespace-trimmed concatenation, in arrival order, of the text fragments
\* of the events decoded before the sentinel; is_final is true exactly when
\* one of them carries the final flag; and the metadata is that of the
\* terminal (last final-flagged) event, null when that event carries none.
C18_Accumulated ==
    LET before == SseBeforeSentinel(sse.lines)
        events == SseEvents(before)
    IN SseEventRecords(before) =>
           /\ sse.pc # "raised"
           /\ sse.pc = "returned" =>
                  /\ Val(sse.result).content = Strip(SseFragments(events))
                  /\ Val(sse.result).is_final = (SseFlagged(events) # {})
                  /\ SseFlagged(events) # {} =>
                         Val(sse.result).metadata = SseTerminalMetadata(events)

\* two fragments were concatenated and trimmed into "Hello", and the final
\* event's metadata was returned
C18_Witness ==
    /\ sse.pc = "returned"
    /\ Len(SseEvents(SseBeforeSentinel(sse.lines))) >= 2
    /\ SseFragments(SseEvents(SseBeforeSentinel(sse.lines)))
           = <<"H","e","l","l","o"," ">>
    /\ Val(sse.result).content = <<"H","e","l","l","o">>
    /\ Val(sse.result).is_final
    /\ Val(sse.result).metadata = Some(Object(1))

\* C19: an entry that fails to decode is skipped: the loop goes on to the
\* next line with the accumulated text, final flag and metadata unchanged and
\* no exception; and the sentinel closes the stream: the reply is returned
\* with no line after the sentinel read.
C19_UndecodableSkipped ==
    [][ /\ (SseReading /\ SseLineAt(sse).kind = "undecodable") =>
               sse' = [sse EXCEPT !.i = @ + 1]
        /\ sse'.pc = "returned" =>
               sse'.i <= Len(SseBeforeSentinel(sse.lines)) + 1
      ]_vars

\* an undecodable entry, a final event, the sentinel and one more event: the
\* reply is the final event's, and the last line was not read
C19_Witness ==
    /\ sse.pc = "returned"
    /\ Len(sse.lines) = 4
    /\ sse.lines[1].kind = "undecodable"
    /\ sse.lines[2] = SseLine("event", Str(<<"l","o"," ">>), Bool(TRUE), Object(1))
    /\ sse.lines[3].kind = "done"
    /\ sse.lines[4] = SseLine("event", Str(<<"H","e","l">>), Absent, Absent)
    /\ sse.i = 3
    /\ Val(sse.result) = [content |-> <<"l","o">>, role |-> "assistant",
                          is_final |-> TRUE, metadata |-> Some(Object(1))]

\* C20: a stream that ends without a final-flagged event returns, without an
\* exception, is_final = false, no metadata and the text accumulated so far;
\* an empty stream returns empty text, is_final = false and no metadata.
C20_NoFinalEvent ==
    LET before == SseBeforeSentinel(sse.lines)
        events == SseEvents(before)
    IN /\ (SseEventRecords(before) /\ SseFlagged(events) = {}) =>
              /\ sse.pc # "raised"
              /\ sse.pc = "returned" =>
                     Val(sse.result) =
                         [content |-> Strip(SseFragments(events)),
                          role |-> "assistant",
                          is_final |-> FALSE,
                          metadata |-> None]
       /\ (sse.lines = <<>> /\ sse.pc = "returned") =>
              Val(sse.result) = [content |-> <<>>, role |-> "assistant",
                                 is_final |-> FALSE, metadata |-> None]

\* a stream with text and no final-flagged event has ended and was returned
C20_Witness ==
    /\ sse.pc = "returned"
    /\ \A i \in 1..Len(sse.lines) : sse.lines[i].kind # "done"
    /\ SseFlagged(SseEvents(sse.lines)) = {}
    /\ Len(SseEvents(sse.lines)) >= 1
    /\ Val(sse.result).content # <<>>
    /\ ~Val(sse.result).is_final

(***************************************************************************)
(* The store under concurrent callers: what the claims speak about.        *)
(***************************************************************************)
\* the calls that have returned or raised
Finished == {t \in Tasks : tasks[t].pc = "idle" /\ tasks[t].op # "none"}

\* C11: when volatile mode is not allowed and no connection to Redis was
\* ever made (the package is missing or every ping failed), every call has
\* ended with the initialization error, the store is neither initialized nor
\* in volatile mode, and nothing is stored in it.
C11_NoBackendIsFatal ==
    (~settings.allow_memory_state_store /\ store.redis = None) =>
        /\ ~store.initialized
        /\ ~store.memory_only_mode
        /\ \A phone \in Phones :
               store.memory_store[phone] = None /\ redis_db[Key(phone)] = None
        /\ \A t \in Finished : tasks[t].exc = Some("RuntimeError")

\* several attempts have failed, a set among them, and the store is as new
C11_Witness ==
    /\ ~settings.allow_memory_state_store
    /\ store.redis = None
    /\ attempts >= 2
    /\ Finished = Tasks
    /\ \E t \in Tasks : tasks[t].op = "set"
    /\ \E t \in Tasks : tasks[t].op = "get"
    /\ ~store.initialized

\* C12: callers that trigger first use concurrently converge on one
\* initialization attempt: a caller that waited for the attempt in progress
\* makes none of its own, and once initialization has completed no caller
\* makes one.
C12_OneInitializationAttempt ==
    [][ /\ \A t \in Tasks : tasks[t].pc = "lock" => tasks'[t].pc # "ping"
        /\ store.initialized => attempts' = attempts
      ]_vars

\* C13: the degraded-persistence warning is emitted at most once, whatever
\* the interleaving of the calls.
C13_WarningOnce == degraded_logs <= 1

\* every coroutine saw its Redis command fail, one of them after the store
\* was already demoted, and one warning was emitted
C13_Witness ==
    /\ degraded_logs = 1
    /\ Finished = Tasks
    /\ \A t \in Tasks : tasks[t].failed /\ tasks[t].op \in {"set", "delete"}
    /\ store.memory_only_mode
    /\ store.redis # None

(***************************************************************************)
(* Concurrent deliveries: what the claims speak about.                     *)
(***************************************************************************)
\* C16: at most one delivery of an identifier is being handled at any time:
\* the handling of one delivery ends before that of the next one starts.
C16_OneInFlightPerIdentifier ==
    \A d1, d2 \in Deliveries :
        (d1 # d2 /\ inflight[d1].pc = "loaded" /\ inflight[d2].pc = "loaded")
            => inflight[d1].phone # inflight[d2].phone

\* the handler of d loaded a record at ASSESSMENT, forwarded the answer and
\* saved the record with the next question asked
Answered(d) ==
    /\ inflight[d].pc = "done"
    /\ inflight[d].state_data # None
    /\ Val(inflight[d].state_data).current_step = "ASSESSMENT"
    /\ inflight[d].saved # None
    /\ Val(inflight[d].saved).current_step = "ASSESSMENT"

\* C17: two deliveries of one identifier handled concurrently lose an
\* update: when both handlers loaded the same record and both answered a
\* question, each of them saved a record that counts one question more
\* than the record they loaded, so whichever save comes last, the store is
\* left with one question counted, not two.
C17_LostUpdate ==
    \A d1, d2 \in Deliveries :
        ( /\ d1 # d2
          /\ inflight[d1].phone = inflight[d2].phone
          /\ Answered(d1)
          /\ Answered(d2)
          /\ inflight[d1].state_data = inflight[d2].state_data )
        => /\ Val(inflight[d1].saved).questions_asked
                  = Val(inflight[d1].state_data).questions_asked + 1
           /\ Val(inflight[d2].saved).questions_asked
                  = Val(inflight[d1].state_data).questions_asked + 1

\* two handlers loaded the same record, each forwarded an answer to the
\* backend and saved, and the stored counter rose by one
C17_Witness ==
    \E d1, d2 \in Deliveries :
        /\ d1 # d2
        /\ Answered(d1)
        /\ Answered(d2)
        /\ inflight[d1].state_data = inflight[d2].state_data
        /\ Val(inflight[d1].saved).questions_asked
               = Val(inflight[d1].state_data).questions_asked + 1
        /\ Val(inflight[d2].saved).questions_asked
               = Val(inflight[d2].state_data).questions_asked + 1
        /\ Val(Persisted(World, inflight[d1].phone)).questions_asked
               = Val(inflight[d1].state_data).questions_asked + 1

(***************************************************************************)
(* C21.  The opening scenario, every call of a collaborator succeeding.    *)
(* From an identifier without a record, a first text that is no command    *)
(* creates the record, sends one button message (the welcome, with the     *)
(* language choices) and leaves the persisted step at LANGUAGE_SELECT; the *)
(* text "English" then stores locale en, sends one text message and leaves *)
(* the step at ASK_NAME; the next text then is stored, trimmed, as         *)
(* child_name, one more text message is sent and the step is ASK_DOB.      *)
(***************************************************************************)
\* the world in which the next event is handled, after an event ended in w
WorldOf(w) ==
    [World EXCEPT !.store = w.store, !.redis_db = w.redis_db,
                  !.degraded_logs = w.degraded_logs,
                  !.next_session = w.next_session]

\* the event was handled to its end and no collaborator failed
Smooth(w) == w.exc = None /\ RedisAnswered(w)

\* the operation sent one message, of that kind and template, and it arrived
SentOne(w, kind, template) ==
    /\ Len(w.sent) = 1
    /\ w.sent[1].kind = kind
    /\ w.sent[1].body.template = template
    /\ w.sent[1].outcome = "ok"

English == <<"E","n","g","l","i","s","h">>

\* first texts of a conversation, and names as a user may type them
OpeningTexts == PlainTexts \cup { <<"S","t","a","r","t">>, <<"h","i">> }
NameTexts == { <<"S","i","a">>, <<" ","A","s","h","a"," ">> }

C21_OpeningScenario ==
    \A phone \in Phones :
        Persisted(World, phone) = None =>
            \A first \in OpeningTexts :
            \A w1 \in Outcomes(phone, first) :
                Smooth(w1) =>
                    /\ w1.created
                    /\ SentOne(w1, "buttons", "WELCOME_MESSAGES")
                    /\ w1.sent[1].buttons =
                           Val(build_button_payload(LANGUAGE_BUTTONS))
                    /\ Val(Persisted(w1, phone)).current_step = "LANGUAGE_SELECT"
                    /\ \A w2 \in handle_message(WorldOf(w1), phone, English) :
                           Smooth(w2) =>
                               /\ Val(Persisted(w2, phone)).collected_data.locale
                                      = Some("en")
                               /\ SentOne(w2, "text", "ASK_NAME")
                               /\ Val(Persisted(w2, phone)).current_step
                                      = "ASK_NAME"
                               /\ \A name \in NameTexts :
                                  \A w3 \in handle_message(WorldOf(w2), phone,
                                                           name) :
                                      Smooth(w3) =>
                                          /\ Val(Persisted(w3, phone))
                                                 .collected_data.child_name
                                                     = Some(Strip(name))
                                          /\ SentOne(w3, "text", "ASK_DOB")
                                          /\ Val(Persisted(w3, phone)).current_step
                                                 = "ASK_DOB"

\* C21, witness: the store is running in durable mode and holds no record of
\* the identifier; the three events are handled one after the other, and the
\* record ends at ASK_DOB with locale en and the trimmed name
C21_Witness ==
    \E phone \in Phones :
        /\ store.initialized
        /\ Persisted(World, phone) = None
        /\ \E w1 \in Outcomes(phone, <<"S","t","a","r","t">>) :
               /\ Smooth(w1) /\ UsesRedis(w1) /\ w1.created
               /\ \E w2 \in handle_message(WorldOf(w1), phone, English) :
                      /\ Smooth(w2)
                      /\ \E w3 \in handle_message(WorldOf(w2), phone,
                                                  <<" ","A","s","h","a"," ">>) :
                             /\ Smooth(w3)
                             /\ Val(Persisted(w3, phone)).current_step = "ASK_DOB"
                             /\ Val(Persisted(w3, phone)).collected_data =
                                    [CollectedData EXCEPT
                                        !.locale = Some("en"),
                                        !.child_name =
                                            Some(<<"A","s","h","a">>)]

(***************************************************************************)
(* C22.  For every state and every inbound text, invalid input in ASK_DOB  *)
(* or ASK_GESTATIONAL_WEEKS excepted, handling the event moves the         *)
(* persisted step strictly forward in the declared order, or returns it to *)
(* NEW through restart.                                                    *)
(***************************************************************************)
\* the step a conversation is at: NEW where no record is persisted yet
StepAt(w, phone) ==
    IF Persisted(w, phone) = None THEN "NEW"
    ELSE Val(Persisted(w, phone)).current_step

\* invalid input in ASK_DOB or ASK_GESTATIONAL_WEEKS
InvalidIntake(w, phone, message_text) ==
    /\ StepAt(w, phone) \in {"ASK_DOB", "ASK_GESTATIONAL_WEEKS"}
    /\ FailsValidation(Val(Persisted(w, phone)), message_text)

C22_StrictlyForwardOrRestart ==
    \A phone \in Phones, message_text \in Texts :
        ~InvalidIntake(World, phone, message_text) =>
            \A w \in Outcomes(phone, message_text) :
                \/ StepRank(StepAt(w, phone)) > StepRank(StepAt(World, phone))
                \/ IsRestart(message_text) /\ StepAt(w, phone) = "NEW"

(***************************************************************************)
(* C23.  In every record the store holds, gestational_weeks is present     *)
(* only if is_premature is true.  A reply in ASK_GESTATIONAL that is no    *)
(* affirmative phrase marks the record is_premature = false with           *)
(* gestational_weeks absent, and that is what is persisted once the        *)
(* assessment has started.                                                 *)
(***************************************************************************)
\* every record held by the Redis server or by the in-process dict
StoredRecords ==
    { model_validate_json(Val(redis_db[k])) : k \in {j \in Keys : redis_db[j] # None} }
    \cup
    { model_validate_json(Val(store.memory_store[p]))
      : p \in {q \in Phones : store.memory_store[q] # None} }

\* texts that are no command and no affirmative phrase
Denials ==
    { t \in PlainTexts \cup { <<"N","o">>, <<" ","n","o","p","e"," ">> } :
          Strip(Lower(t)) \notin AffirmativePhrases }

C23_WeeksOnlyIfPremature ==
    /\ \A r \in StoredRecords :
           r.collected_data.gestational_weeks # None =>
               r.collected_data.is_premature = Some(TRUE)
    /\ \A phone \in Phones, message_text \in Denials :
           \A w \in Outcomes(phone, message_text) :
               (w.loaded # None /\ Val(w.loaded).current_step = "ASK_GESTATIONAL") =>
                   /\ Val(w.state_data).collected_data.is_premature = Some(FALSE)
                   /\ Val(w.state_data).collected_data.gestational_weeks = None
                   /\ IF w.sets > 0
                      THEN Persisted(w, phone) = w.state_data
                      ELSE Persisted(w, phone) = w.loaded

\* C23, witness: from a record at ASK_GESTATIONAL, "Yes" and then a number of
\* weeks persist the weeks with is_premature true, and "No" persists
\* is_premature false without weeks
C23_Witness ==
    \E phone \in Phones :
        /\ Persisted(World, phone) # None
        /\ Val(Persisted(World, phone)).current_step = "ASK_GESTATIONAL"
        /\ \E w1 \in Outcomes(phone, <<"Y","e","s">>) :
               /\ Smooth(w1)
               /\ \E w2 \in handle_message(WorldOf(w1), phone,
                                           <<" ","3","4"," ","w","e","e","k","s"," ">>) :
                      /\ Val(Persisted(w2, phone)).current_step = "ASSESSMENT"
                      /\ Val(Persisted(w2, phone)).collected_data.gestational_weeks
                             = Some(34)
                      /\ Val(Persisted(w2, phone)).collected_data.is_premature
                             = Some(TRUE)
        /\ \E w \in Outcomes(phone, <<"N","o">>) :
               /\ Val(Persisted(w, phone)).current_step = "ASSESSMENT"
               /\ Val(Persisted(w, phone)).collected_data.is_premature = Some(FALSE)
               /\ Val(Persisted(w, phone)).collected_data.gestational_weeks = None

(***************************************************************************)
(* C24.  For any list of labels, the button payload holds at most three    *)
(* buttons, one for each of the first three labels that is not empty once  *)
(* trimmed, in the order of the labels; each title is the trimmed label    *)
(* cut to 20 characters, each type is quick_reply and each id is btn_ and  *)
(* the position (from 0) of the label in the list; building the payload    *)
(* raises ValueError when none of the first three labels is left.          *)
(***************************************************************************)
\* the positions, among the first three, of the labels that are not blank
KeptLabels(buttons) ==
    {i \in 1..Len(buttons) : i <= 3 /\ Strip(buttons[i]) # <<>>}

\* the k-th position of a set of positions, in increasing order
NthOf(positions, k) ==
    CHOOSE i \in positions : Cardinality({j \in positions : j < i}) = k - 1

C24_ButtonPayload ==
    LET buttons == button_call.buttons
        kept == KeptLabels(buttons)
    IN /\ button_call.pc = "raised" => kept = {}
       /\ button_call.pc = "returned" =>
              LET objects == Val(button_call.ret)
              IN /\ kept # {}
                 /\ Len(objects) = Cardinality(kept)
                 /\ Len(objects) <= 3
                 /\ \A k \in 1..Len(objects) :
                        LET i == NthOf(kept, k)
                            trimmed == Strip(buttons[i])
                            title == objects[k].title
                        IN /\ objects[k].type = "quick_reply"
                           /\ objects[k].id = <<"btn_", i - 1>>
                           /\ Len(title) = IF Len(trimmed) < 20 THEN Len(trimmed)
                                           ELSE 20
                           /\ title = SubSeq(trimmed, 1, Len(title))

\* C24, witness: of four labels the first is blank, the second is padded,
\* the third is too long and the fourth is dropped
C24_Witness ==
    /\ button_call.pc = "returned"
    /\ Len(button_call.buttons) = 4
    /\ Strip(button_call.buttons[1]) = <<>>
    /\ Strip(button_call.buttons[4]) # <<>>
    /\ Len(Val(button_call.ret)) = 2
    /\ Val(button_call.ret)[1] =
           [type |-> "quick_reply", title |-> <<"N","o">>, id |-> <<"btn_", 1>>]
    /\ Val(button_call.ret)[2].id = <<"btn_", 2>>
    /\ Len(Val(button_call.ret)[2].title) = 20
    /\ Len(Strip(button_call.buttons[3])) > 20

(***************************************************************************)
(* C25.  An item of event messages/post that carries status updates and no *)
(* messages is accepted and dropped without error: handling it changes no  *)
(* conversation state and sends nothing, and the items that follow it in   *)
(* the delivery are handled as if it were not there.                       *)
(***************************************************************************)
\* the item of a status update: the payload validates, messages is None
StatusOnly == Item(TRUE, "messages", "post", None)

\* items with one text message of a user
TextItems ==
    { Item(TRUE, "messages", "post",
           Some(<<WhapiMessage(FALSE, "text", Some(t), None, p)>>))
      : t \in PlainTexts, p \in Phones }

C25_StatusOnlyDropped ==
    /\ webhook([body |-> "json", items |-> <<StatusOnly>>]).task
           = Some(<<StatusOnly>>)
    /\ process_webhook(World, <<StatusOnly>>) = {World}
    /\ \A item \in TextItems :
           process_webhook_background(World, <<StatusOnly, item>>)
               = process_webhook_background(World, <<item>>)

(***************************************************************************)
(* C26.  An inbound button reply (a message of type reply that carries a   *)
(* buttons_reply with a title) is accepted, and its title is the text      *)
(* handed to the state machine: the reply has the effect of a text message *)
(* with that title.                                                        *)
(***************************************************************************)
\* titles of the buttons the bot sends
ReplyTitles == { English, <<"H","i","n","d","i">>, <<"Y","e","s">> }

C26_ButtonReplyIsText ==
    \A title \in ReplyTitles, phone \in Phones :
        ProcessMessage(World,
                       WhapiMessageOf(RawMessage(FALSE, "reply", None, None,
                                                 Some(title), phone)))
            = ProcessMessage(World,
                             WhapiMessageOf(RawMessage(FALSE, "text", Some(title),
                                                       None, None, phone)))

(***************************************************************************)
(* C27.  Starting an assessment calls the backend to start the session,    *)
(* sends the starting message, queries the backend for the first question, *)
(* sends that question with its progress indicator and the answer buttons, *)
(* and then persists the record at ASSESSMENT: in that order, each step    *)
(* only when the one before it succeeded.  The record is not persisted at  *)
(* ASSESSMENT before the first question has been sent.                     *)
(***************************************************************************)
\* the positions of the messages of a template among those w sent
SentAt(w, template) ==
    {i \in 1..Len(w.sent) : w.sent[i].body.template = template}

\* the positions of the calls of an operation among the backend calls of w
CalledAt(w, name) == {i \in 1..Len(w.backend) : w.backend[i].call = name}

C27_StartInOrder ==
    \A phone \in Phones, message_text \in PlainTexts :
        \A w \in Outcomes(phone, message_text) :
            (w.loaded # None /\ StartsAssessment(Val(w.loaded), message_text)) =>
                /\ Len(w.backend) >= 1
                /\ Len(w.backend) <= 2
                /\ w.backend[1].call = "start_session"
                /\ \A i \in 1..Len(w.sent) : w.sent[i].after >= 1
                /\ \A i \in SentAt(w, "STARTING_ASSESSMENT") :
                       /\ i = 1
                       /\ w.backend[1].ok
                       /\ w.sent[i].after = 1
                /\ \A j \in CalledAt(w, "query_assistant") :
                       /\ j = 2
                       /\ SentAt(w, "STARTING_ASSESSMENT") = {1}
                       /\ w.sent[1].outcome = "ok"
                       /\ w.backend[j].session_id = w.backend[1].session_id
                       /\ w.backend[j].answer_code = None
                /\ \A i \in SentAt(w, "QUESTION_PROGRESS") :
                       /\ i = 2
                       /\ CalledAt(w, "query_assistant") = {2}
                       /\ w.backend[2].ok
                       /\ w.sent[i].after = 2
                       /\ w.sent[i].kind = "buttons"
                       /\ w.sent[i].body.current = 1
                /\ \A k \in 1..Len(w.set_log) :
                       /\ k = 1
                       /\ w.set_log[k].step = "ASSESSMENT"
                       /\ w.set_log[k].backend = 2
                       /\ w.set_log[k].sent = 2
                       /\ SentAt(w, "QUESTION_PROGRESS") = {2}
                       /\ w.sent[2].outcome = "ok"
                /\ StepAt(w, phone) = "ASSESSMENT" => Len(w.set_log) = 1
                /\ (w.exc = None /\ ~FailedIn(w, {"STARTING_ASSESSMENT",
                                                 "QUESTION_PROGRESS"})) =>
                       /\ Len(w.set_log) = 1
                       /\ StepAt(w, phone) = "ASSESSMENT"

\* C27, witness: the five steps are carried out and the record is persisted
\* at ASSESSMENT; and with the same text the question is fetched but cannot
\* be sent, and nothing is persisted
C27_Witness ==
    \E phone \in Phones, message_text \in PlainTexts :
        /\ Persisted(World, phone) # None
        /\ StartsAssessment(Val(Persisted(World, phone)), message_text)
        /\ \E w \in Outcomes(phone, message_text) :
               /\ w.loaded = Persisted(World, phone)
               /\ Len(w.backend) = 2 /\ Len(w.sent) = 2
               /\ w.set_log = <<[step |-> "ASSESSMENT", sent |-> 2, backend |-> 2]>>
               /\ StepAt(w, phone) = "ASSESSMENT"
        /\ \E w \in Outcomes(phone, message_text) :
               /\ w.loaded = Persisted(World, phone)
               /\ Len(w.backend) = 2
               /\ SentAt(w, "QUESTION_PROGRESS") = {2}
               /\ w.sent[2].outcome = "http_error"
               /\ w.set_log = <<>>
               /\ StepAt(w, phone) # "ASSESSMENT"

(***************************************************************************)
(* C28.  In every record the store holds, session_id is present exactly    *)
(* when the step is ASSESSMENT or COMPLETED, and questions_asked is 0 at   *)
(* every step before ASSESSMENT; the record persisted on entry to          *)
(* ASSESSMENT has questions_asked = 1 and the session id the backend       *)
(* issued.                                                                 *)
(***************************************************************************)
C28_SessionAndCount ==
    /\ \A r \in StoredRecords :
           /\ r.session_id # None <=> r.current_step \in {"ASSESSMENT", "COMPLETED"}
           /\ StepRank(r.current_step) < StepRank("ASSESSMENT") =>
                  r.questions_asked = 0
    /\ \A phone \in Phones, message_text \in Texts :
           \A w \in Outcomes(phone, message_text) :
               (StepAt(World, phone) # "ASSESSMENT" /\ StepAt(w, phone) = "ASSESSMENT")
                   => /\ Val(Persisted(w, phone)).questions_asked = 1
                      /\ w.backend[1].call = "start_session"
                      /\ Val(Persisted(w, phone)).session_id
                             = w.backend[1].session_id
                      /\ w.backend[1].session_id # None

\* C28, witness: the store holds a record at ASK_GESTATIONAL_WEEKS, without
\* session and with no question asked, and a number of weeks takes it into
\* ASSESSMENT with a session and one question asked
C28_Witness ==
    \E phone \in Phones, message_text \in PlainTexts :
        /\ Persisted(World, phone) # None
        /\ Val(Persisted(World, phone)).current_step = "ASK_GESTATIONAL_WEEKS"
        /\ Val(Persisted(World, phone)).session_id = None
        /\ \E w \in Outcomes(phone, message_text) :
               /\ StepAt(w, phone) = "ASSESSMENT"
               /\ Val(Persisted(w, phone)).session_id = Some(SessionId(1))
               /\ Val(Persisted(w, phone)).questions_asked = 1

(***************************************************************************)
(* C29.  With events handled one at a time, questions_asked never          *)
(* decreases during the life of a record and counts the assessment         *)
(* questions sent to the user: an event other than a restart raises it by  *)
(* the number of questions the event sent, and the progress number shown   *)
(* on a question is the value questions_asked has once the question is     *)
(* recorded.                                                               *)
(***************************************************************************)
\* the positions of the assessment questions w sent with success
QuestionsSent(w) ==
    {i \in SentAt(w, "QUESTION_PROGRESS") : w.sent[i].outcome = "ok"}

C29_CountsQuestionsSent ==
    \A phone \in Phones, message_text \in Texts :
        (Persisted(World, phone) # None /\ ~IsRestart(message_text)) =>
            \A w \in Outcomes(phone, message_text) :
                LET before == Val(Persisted(World, phone)).questions_asked
                    after == Val(Persisted(w, phone)).questions_asked
                IN Persisted(w, phone) # None =>
                       /\ after >= before
                       /\ after = before + Cardinality(QuestionsSent(w))
                       /\ \A i \in QuestionsSent(w) :
                              w.sent[i].body.current = after

(***************************************************************************)
(* C30.  In ASSESSMENT, a text that matches an answer code is forwarded to *)
(* the backend once, with that code and the session_id of the record.      *)
(* When the backend's turn is final, the completion sequence runs and      *)
(* questions_asked is not raised; otherwise one next question is sent,     *)
(* questions_asked is raised by 1 and the step stays ASSESSMENT.           *)
(***************************************************************************)
\* answers as a user may type them or tap them
AnswerTexts ==
    { <<"Y","e","s">>, <<" ","n","o"," ">>,
      <<"s","o","m","e","t","i","m","e","s",",","y","e","s">> }

C30_AnswerForwarded ==
    \A phone \in Phones, message_text \in AnswerTexts :
        /\ AnswerCode(message_text) # None
        /\ \A w \in Outcomes(phone, message_text) :
               (w.loaded # None /\ Val(w.loaded).current_step = "ASSESSMENT") =>
                   LET loaded == Val(w.loaded)
                       after == Val(Persisted(w, phone))
                   IN /\ CalledAt(w, "query_assistant") = {1}
                      /\ w.backend[1].answer_code = AnswerCode(message_text)
                      /\ w.backend[1].session_id = loaded.session_id
                      /\ \A i \in 1..Len(w.sent) : w.sent[i].after >= 1
                      /\ (w.backend[1].ok /\ w.backend[1].is_final) =>
                             /\ CalledAt(w, "close_session") = {2}
                             /\ SentAt(w, "QUESTION_PROGRESS") = {}
                             /\ after.questions_asked = loaded.questions_asked
                             /\ CompletionSucceeded(w) <=>
                                    after.current_step = "COMPLETED"
                      /\ (w.backend[1].ok /\ ~w.backend[1].is_final) =>
                             /\ Len(w.backend) = 1
                             /\ SentAt(w, "QUESTION_PROGRESS") = {1}
                             /\ w.sent[1].body.current = loaded.questions_asked + 1
                             /\ after.current_step = "ASSESSMENT"
                             /\ after.questions_asked =
                                    IF w.sent[1].outcome = "ok"
                                    THEN loaded.questions_asked + 1
                                    ELSE loaded.questions_asked
                      /\ ~w.backend[1].ok =>
                             /\ Len(w.backend) = 1
                             /\ after = loaded

\* C30, witness: at ASSESSMENT with one question asked, the answer "Yes" is
\* followed by a second question in one outcome and by the completion in
\* another
C30_Witness ==
    \E phone \in Phones :
        /\ Persisted(World, phone) # None
        /\ Val(Persisted(World, phone)).current_step = "ASSESSMENT"
        /\ Val(Persisted(World, phone)).questions_asked = 1
        /\ \E w \in Outcomes(phone, <<"Y","e","s">>) :
               /\ w.backend = <<[call |-> "query_assistant",
                                 session_id |-> Val(Persisted(World, phone)).session_id,
                                 answer_code |-> Some("yes"), ok |-> TRUE,
                                 is_final |-> FALSE]>>
               /\ QuestionsSent(w) = {1}
               /\ Val(Persisted(w, phone)).questions_asked = 2
               /\ Val(Persisted(w, phone)).current_step = "ASSESSMENT"
        /\ \E w \in Outcomes(phone, <<"Y","e","s">>) :
               /\ w.backend[1].is_final
               /\ CompletionSucceeded(w)
               /\ Val(Persisted(w, phone)).questions_asked = 1
               /\ Val(Persisted(w, phone)).current_step = "COMPLETED"

(***************************************************************************)
(* C31.  The answer code chosen for an inbound text (lower-cased and       *)
(* trimmed) is the code of the table entry whose phrase equals it, if      *)
(* there is one; otherwise the code of the first entry, in table order,    *)
(* whose phrase contains the text or is contained in it; otherwise the     *)
(* text is invalid input: nothing is forwarded and the user is prompted    *)
(* again.                                                                  *)
(***************************************************************************)
\* a record of phone at that step is held by the Redis server or by the
\* in-process dict: the records get_or_create_state can load
HeldAt(phone, step) ==
    \E data \in {redis_db[Key(phone)], store.memory_store[phone]} :
        data # None /\ model_validate_json(Val(data)).current_step = step

\* the handler loaded a record at that step
LoadedAt(w, step) == w.loaded # None /\ Val(w.loaded).current_step = step

\* the places of the table whose phrase is the text, and those whose phrase
\* contains the text or is contained in it
ExactPlaces(text) ==
    {i \in 1..Len(ANSWER_CODE_MAP) : ANSWER_CODE_MAP[i][1] = text}
ScanPlaces(text) ==
    {i \in 1..Len(ANSWER_CODE_MAP) :
         \/ Contains(text, ANSWER_CODE_MAP[i][1])
         \/ Contains(ANSWER_CODE_MAP[i][1], text)}

\* the least of a non-empty set of places
FirstOf(places) == CHOOSE i \in places : \A j \in places : i <= j

\* the first call of the backend forwards that answer code
Forwards(w, code) ==
    /\ Len(w.backend) >= 1
    /\ w.backend[1].call = "query_assistant"
    /\ w.backend[1].answer_code = Some(code)

\* answers typed by hand: an exact phrase that an earlier phrase is part of,
\* two phrases in one text, a part of a phrase, and no phrase at all
MatchTexts ==
    { <<"N","o","t"," ","S","u","r","e">>,
      <<"n","o",","," ","y","e","s">>,
      <<" ","s","u","r","e"," ">>,
      <<"m","a","y","b","e">> }

C31_AnswerCodeChosen ==
    \A phone \in Phones :
        HeldAt(phone, "ASSESSMENT") =>
            \A message_text \in MatchTexts :
            \A w \in Outcomes(phone, message_text) :
                LoadedAt(w, "ASSESSMENT") =>
                    LET text == Strip(Lower(message_text))
                    IN IF ExactPlaces(text) # {}
                       THEN \A i \in ExactPlaces(text) :
                                Forwards(w, ANSWER_CODE_MAP[i][2])
                       ELSE IF ScanPlaces(text) # {}
                       THEN Forwards(w, ANSWER_CODE_MAP[FirstOf(ScanPlaces(text))][2])
                       ELSE /\ w.backend = <<>>
                            /\ Len(w.sent) = 1
                            /\ w.sent[1].body.template = "USE_THE_BUTTONS"
                            /\ w.sets = 0

\* C31, witness: at ASSESSMENT, "Not Sure" is forwarded as not_sure although
\* "no" stands earlier in the table and is part of it, "no, yes" as yes,
\* " sure " as not_sure, and "maybe" is answered by the guidance alone
C31_Witness ==
    \E phone \in Phones :
        /\ Persisted(World, phone) # None
        /\ Val(Persisted(World, phone)).current_step = "ASSESSMENT"
        /\ \E w \in Outcomes(phone, <<"N","o","t"," ","S","u","r","e">>) :
               LoadedAt(w, "ASSESSMENT") /\ Forwards(w, "not_sure")
        /\ \E w \in Outcomes(phone, <<"n","o",","," ","y","e","s">>) :
               LoadedAt(w, "ASSESSMENT") /\ Forwards(w, "yes")
        /\ \E w \in Outcomes(phone, <<" ","s","u","r","e"," ">>) :
               LoadedAt(w, "ASSESSMENT") /\ Forwards(w, "not_sure")
        /\ \E w \in Outcomes(phone, <<"m","a","y","b","e">>) :
               /\ LoadedAt(w, "ASSESSMENT")
               /\ w.backend = <<>>
               /\ SentOne(w, "text", "USE_THE_BUTTONS")

(***************************************************************************)
(* C32.  In LANGUAGE_SELECT no text that is not a command is rejected:     *)
(* the only message sent is the request for the child's name, never a      *)
(* second request for a language, and the locale chosen is one of en, hi,  *)
(* mr: that of the table entry whose phrase equals the text (lower-cased   *)
(* and trimmed), else that of the first entry in table order whose phrase  *)
(* occurs inside the text, else en.  Once the message is sent the record   *)
(* is persisted at ASK_NAME with that locale.                              *)
(***************************************************************************)
\* the places of the locale table whose phrase is the text, and those whose
\* phrase occurs inside the text
LocaleExactPlaces(text) ==
    {i \in 1..Len(LANGUAGE_CODE_MAP) : LANGUAGE_CODE_MAP[i][1] = text}
LocaleScanPlaces(text) ==
    {i \in 1..Len(LANGUAGE_CODE_MAP) : Contains(text, LANGUAGE_CODE_MAP[i][1])}

\* the locale C32 names for a text
LocaleFor(message_text) ==
    LET text == Strip(Lower(message_text))
    IN IF LocaleExactPlaces(text) # {}
       THEN LANGUAGE_CODE_MAP[FirstOf(LocaleExactPlaces(text))][2]
       ELSE IF LocaleScanPlaces(text) # {}
       THEN LANGUAGE_CODE_MAP[FirstOf(LocaleScanPlaces(text))][2]
       ELSE "en"

\* replies to the language question: a button title, two languages in one
\* text, a part of a phrase, and an unrelated text
LanguageTexts ==
    { <<"H","i","n","d","i">>,
      <<"m","a","r","a","t","h","i",","," ","H","I","N","D","I">>,
      <<"h","i","n">>,
      <<" ","o","k"," ">> }

C32_EveryTextSelectsALocale ==
    \A phone \in Phones :
        HeldAt(phone, "LANGUAGE_SELECT") =>
            \A message_text \in LanguageTexts :
            \A w \in Outcomes(phone, message_text) :
                LoadedAt(w, "LANGUAGE_SELECT") =>
                    /\ LocaleFor(message_text) \in Locales
                    /\ Val(w.state_data).collected_data.locale
                           = Some(LocaleFor(message_text))
                    /\ Len(w.sent) = 1
                    /\ w.sent[1].kind = "text"
                    /\ w.sent[1].body.template = "ASK_NAME"
                    /\ w.sent[1].body.locale = LocaleFor(message_text)
                    /\ w.backend = <<>>
                    /\ IF w.exc = None
                       THEN /\ Persisted(w, phone) = w.state_data
                            /\ Val(w.state_data).current_step = "ASK_NAME"
                       ELSE Persisted(w, phone) = w.loaded

\* C32, witness: at LANGUAGE_SELECT, "marathi, HINDI" persists hi at
\* ASK_NAME (hindi stands before marathi in the table), and "hin" and " ok "
\* persist en at ASK_NAME
C32_Witness ==
    \E phone \in Phones :
        /\ Persisted(World, phone) # None
        /\ Val(Persisted(World, phone)).current_step = "LANGUAGE_SELECT"
        /\ \E w \in Outcomes(phone, <<"m","a","r","a","t","h","i",","," ",
                                      "H","I","N","D","I">>) :
               /\ Smooth(w)
               /\ Val(Persisted(w, phone)).current_step = "ASK_NAME"
               /\ Val(Persisted(w, phone)).collected_data.locale = Some("hi")
        /\ \A message_text \in { <<"h","i","n">>, <<" ","o","k"," ">> } :
           \E w \in Outcomes(phone, message_text) :
               /\ Smooth(w)
               /\ Val(Persisted(w, phone)).current_step = "ASK_NAME"
               /\ Val(Persisted(w, phone)).collected_data.locale = Some("en")

(***************************************************************************)
(* C33.  Once the persisted step is COMPLETED, every text that is neither  *)
(* a restart phrase nor a help phrase is answered by the results link of   *)
(* the record's session with the restart hint, and by nothing else; no     *)
(* backend call is made and the persisted record is left as it was.        *)
(***************************************************************************)
C33_CompletedStays ==
    \A phone \in Phones :
        ( /\ Persisted(World, phone) # None
          /\ Val(Persisted(World, phone)).current_step = "COMPLETED" ) =>
            \A message_text \in PlainTexts :
            \A w \in Outcomes(phone, message_text) :
                /\ w.backend = <<>>
                /\ Len(w.sent) = 1
                /\ w.sent[1].body.template = "ALREADY_COMPLETE"
                /\ w.sent[1].body.session_id =
                       Val(Persisted(World, phone)).session_id
                /\ Persisted(w, phone) = Persisted(World, phone)

(***************************************************************************)
(* C34.  In ASK_GESTATIONAL_WEEKS the value considered is the first run of *)
(* decimal digits of the message.  When it is an integer from 24 to 42 it  *)
(* is stored as gestational_weeks and the start-assessment sequence runs.  *)
(* When the message has no digit, or the integer is outside 24..42, the    *)
(* input is rejected with the range guidance, no backend call is made and  *)
(* the record is left as it was, even when a later run of digits of the    *)
(* same message is in range.                                               *)
(***************************************************************************)
\* the maximal runs of digits of s, as pairs of their first and last place
DigitRuns(s) ==
    { ab \in (1..Len(s)) \X (1..Len(s)) :
          /\ ab[1] <= ab[2]
          /\ \A i \in ab[1]..ab[2] : IsDigit(s[i])
          /\ (ab[1] = 1 \/ ~IsDigit(s[ab[1] - 1]))
          /\ (ab[2] = Len(s) \/ ~IsDigit(s[ab[2] + 1])) }

\* the value of the run ab of s, read as a decimal number
RunValue(s, ab) == ToInt(SubSeq(s, ab[1], ab[2]))

\* the run that starts first
FirstRun(s) == CHOOSE ab \in DigitRuns(s) : \A cd \in DigitRuns(s) : ab[1] <= cd[1]

\* replies to the question about the weeks: in range, a small number before
\* one in range, a date, no number, the two ends of the range and beyond
WeeksTexts ==
    { <<" ","3","4"," ","w","e","e","k","s"," ">>,
      <<"7"," ","o","r"," ","3","0">>,
      <<"Y","e","s">>,
      <<"2","4">>,
      <<"4","2","w">>,
      <<"4","3">> }

C34_FirstDigitRunDecides ==
    \A phone \in Phones :
        HeldAt(phone, "ASK_GESTATIONAL_WEEKS") =>
            \A message_text \in WeeksTexts :
            \A w \in Outcomes(phone, message_text) :
                LoadedAt(w, "ASK_GESTATIONAL_WEEKS") =>
                    IF /\ DigitRuns(message_text) # {}
                       /\ RunValue(message_text, FirstRun(message_text)) \in 24..42
                    THEN /\ Val(w.state_data).collected_data.gestational_weeks
                                = Some(RunValue(message_text, FirstRun(message_text)))
                         /\ CalledAt(w, "start_session") = {1}
                         /\ IF w.sets > 0
                            THEN /\ Persisted(w, phone) = w.state_data
                                 /\ Val(w.state_data).current_step = "ASSESSMENT"
                            ELSE Persisted(w, phone) = w.loaded
                    ELSE /\ w.backend = <<>>
                         /\ w.sets = 0
                         /\ Persisted(w, phone) = w.loaded
                         /\ Len(w.sent) >= 1
                         /\ \A i \in 1..Len(w.sent) :
                                w.sent[i].body.template = "INVALID_GESTATIONAL_WEEKS"

\* C34, witness: at ASK_GESTATIONAL_WEEKS, " 34 weeks " starts the
\* assessment with 34 weeks persisted, and "7 or 30" is rejected with the
\* guidance although 30 is in range
C34_Witness ==
    \E phone \in Phones :
        /\ Persisted(World, phone) # None
        /\ Val(Persisted(World, phone)).current_step = "ASK_GESTATIONAL_WEEKS"
        /\ \E w \in Outcomes(phone, <<" ","3","4"," ","w","e","e","k","s"," ">>) :
               /\ Smooth(w)
               /\ Val(Persisted(w, phone)).current_step = "ASSESSMENT"
               /\ Val(Persisted(w, phone)).collected_data.gestational_weeks
                      = Some(34)
        /\ \E w \in Outcomes(phone, <<"7"," ","o","r"," ","3","0">>) :
               /\ Smooth(w)
               /\ SentOne(w, "text", "INVALID_GESTATIONAL_WEEKS")
               /\ Persisted(w, phone) = Persisted(World, phone)

(***************************************************************************)
(* C35.  How often an inbound event writes the user's record.  An event    *)
(* that finds no record (the first one of an identifier, or a restart,     *)
(* which deletes the record first) writes it twice: once to create it at   *)
(* NEW and once to move it to LANGUAGE_SELECT after the welcome; it writes *)
(* once when the welcome could not be sent.  An event that finds a record  *)
(* writes it at most once, and exactly when it changes it; it writes       *)
(* nothing when the input fails validation or the record is at COMPLETED.  *)
(* A help phrase writes nothing.                                           *)
(***************************************************************************)
C35_WritesPerEvent ==
    \A phone \in Phones, message_text \in Texts :
    \A w \in Outcomes(phone, message_text) :
        /\ IsHelp(message_text) => w.sets = 0
        /\ w.created => w.sets = IF w.exc = None THEN 2 ELSE 1
        /\ (w.loaded = None /\ ~w.created) => w.sets = 0
        /\ (w.loaded # None /\ ~w.created) =>
               /\ w.sets <= 1
               /\ w.sets = 1 <=> Persisted(w, phone) # w.loaded
               /\ ( \/ FailsValidation(Val(w.loaded), message_text)
                    \/ Val(w.loaded).current_step = "COMPLETED" ) => w.sets = 0

\* C35 as the specification states it: every event writes the record once
C35_OneWritePerEvent ==
    \A phone \in Phones, message_text \in Texts :
    \A w \in Outcomes(phone, message_text) :
        w.exc = None => w.sets = 1

\* C35, witness: a record at ASK_DOB; a date is answered with one write, a
\* text that is no date with none, and a restart with two
C35_Witness ==
    \E phone \in Phones :
        /\ Persisted(World, phone) # None
        /\ Val(Persisted(World, phone)).current_step = "ASK_DOB"
        /\ \E w \in Outcomes(phone, <<"1","5","/","0","3","/","2","0","2","4">>) :
               /\ Smooth(w) /\ ~w.created /\ w.sets = 1
               /\ Val(Persisted(w, phone)).current_step = "ASK_GESTATIONAL"
        /\ \E w \in Outcomes(phone, <<"Y","e","s">>) :
               /\ Smooth(w) /\ ~w.created /\ w.sets = 0
               /\ Persisted(w, phone) = Persisted(World, phone)
        /\ \E w \in Outcomes(phone, <<" ","R","e","s","t","a","r","t"," ">>) :
               /\ Smooth(w) /\ w.created /\ w.sets = 2
               /\ Val(Persisted(w, phone)).current_step = "LANGUAGE_SELECT"

(***************************************************************************)
(* C36.  In ASSESSMENT a text that is empty once its whitespace is trimmed *)
(* is unmatched input: no answer is forwarded to the backend, the guidance *)
(* message is sent, and the record (its step and its questions_asked) is   *)
(* left as it was.                                                         *)
(***************************************************************************)
\* texts of whitespace alone; process_message lets them through, as they
\* are not empty
BlankTexts == { <<" ">>, <<" ","\n">> }

C36_BlankIsUnmatched ==
    \A phone \in Phones :
        HeldAt(phone, "ASSESSMENT") =>
            \A message_text \in BlankTexts :
            \A w \in Outcomes(phone, message_text) :
                LoadedAt(w, "ASSESSMENT") =>
                    /\ Strip(message_text) = <<>>
                    /\ w.backend = <<>>
                    /\ Len(w.sent) = 1
                    /\ w.sent[1].body.template = "USE_THE_BUTTONS"
                    /\ Persisted(w, phone) = w.loaded

(***************************************************************************)
(* C37.  Every assessment question is sent with a button for each answer   *)
(* code: the titles of the buttons delivered with a question stand for     *)
(* yes, sometimes, no and not_sure, all four.                              *)
(***************************************************************************)
AnswerCodes == {"yes", "sometimes", "no", "not_sure"}

\* the answer codes the buttons of a sent message stand for: what pressing
\* each of them sends back is its title
ButtonCodes(m) ==
    { code \in AnswerCodes :
          \E i \in 1..Len(m.buttons) : AnswerCode(m.buttons[i].title) = Some(code) }

C37_ButtonForEveryCode ==
    \A phone \in Phones, message_text \in Texts :
    \A w \in Outcomes(phone, message_text) :
        \A i \in SentAt(w, "QUESTION_PROGRESS") :
            ButtonCodes(w.sent[i]) = AnswerCodes

(***************************************************************************)
(* C38.  Every record the store holds is complete for its step: the locale *)
(* is one of en, hi, mr from ASK_NAME on; child_name is set from ASK_DOB   *)
(* on; dob is set from ASK_GESTATIONAL on; is_premature is true in         *)
(* ASK_GESTATIONAL_WEEKS; in ASSESSMENT and COMPLETED is_premature is      *)
(* known and, when it is true, gestational_weeks is an integer from 24 to  *)
(* 42.  The same holds of the record an event leaves behind, a name of     *)
(* whitespace alone included.                                              *)
(***************************************************************************)
\* the step of record r is the step named or a later one
From(r, step) == StepRank(r.current_step) >= StepRank(step)

\* what C38 asks of one record
IntakeComplete(r) ==
    LET cd == r.collected_data
    IN /\ From(r, "ASK_NAME") => cd.locale # None /\ Val(cd.locale) \in Locales
       /\ From(r, "ASK_DOB") => cd.child_name # None
       /\ From(r, "ASK_GESTATIONAL") => cd.dob # None /\ Val(cd.dob) # <<>>
       /\ r.current_step = "ASK_GESTATIONAL_WEEKS" => cd.is_premature = Some(TRUE)
       /\ r.current_step \in {"ASSESSMENT", "COMPLETED"} =>
              /\ cd.is_premature \in {Some(TRUE), Some(FALSE)}
              /\ cd.is_premature = Some(TRUE) =>
                     /\ cd.gestational_weeks # None
                     /\ Val(cd.gestational_weeks) \in 24..42

C38_IntakeComplete ==
    /\ \A r \in StoredRecords : IntakeComplete(r)
    /\ \A phone \in Phones :
           HeldAt(phone, "ASK_NAME") =>
               \A message_text \in NameTexts \cup BlankTexts :
               \A w \in Outcomes(phone, message_text) :
                   Persisted(w, phone) # None =>
                       IntakeComplete(Val(Persisted(w, phone)))

\* C38, witness: the store holds a record at COMPLETED of a child born
\* early, with its locale, name, date of birth and 34 weeks
C38_Witness ==
    \E r \in StoredRecords :
        /\ r.current_step = "COMPLETED"
        /\ r.collected_data.locale \in {Some("en"), Some("hi")}
        /\ r.collected_data.child_name # None
        /\ r.collected_data.dob = Some(<<"2","0","2","4","-","0","3","-","1","5">>)
        /\ r.collected_data.is_premature = Some(TRUE)
        /\ r.collected_data.gestational_weeks = Some(34)

(***************************************************************************)
(* C39.  No sequence of inbound events persists a record with step         *)
(* ABANDONED: every record the store holds, and every record an event      *)
(* writes to it, has one of the steps NEW, LANGUAGE_SELECT, ASK_NAME,      *)
(* ASK_DOB, ASK_GESTATIONAL, ASK_GESTATIONAL_WEEKS, ASSESSMENT, COMPLETED. *)
(***************************************************************************)
PersistedSteps ==
    {"NEW", "LANGUAGE_SELECT", "ASK_NAME", "ASK_DOB", "ASK_GESTATIONAL",
     "ASK_GESTATIONAL_WEEKS", "ASSESSMENT", "COMPLETED"}

C39_NeverAbandoned ==
    /\ "ABANDONED" \notin PersistedSteps
    /\ \E i \in 1..Len(ConversationState) : ConversationState[i][1] = "ABANDONED"
    /\ \A r \in StoredRecords : r.current_step \in PersistedSteps
    /\ \A phone \in Phones, message_text \in Texts :
       \A w \in Outcomes(phone, message_text) :
           \A i \in 1..Len(w.set_log) : w.set_log[i].step \in PersistedSteps

\* C39, witness: a record at COMPLETED; a further text writes nothing, and
\* a restart writes the record at NEW and then at LANGUAGE_SELECT
C39_Witness ==
    \E phone \in Phones :
        /\ Persisted(World, phone) # None
        /\ Val(Persisted(World, phone)).current_step = "COMPLETED"
        /\ \E w \in Outcomes(phone, <<"Y","e","s">>) :
               Smooth(w) /\ w.set_log = <<>>
        /\ \E w \in Outcomes(phone, <<" ","R","e","s","t","a","r","t"," ">>) :
               /\ Smooth(w)
               /\ Len(w.set_log) = 2
               /\ w.set_log[1].step = "NEW"
               /\ w.set_log[2].step = "LANGUAGE_SELECT"

(***************************************************************************)
(* C40.  Progress: with the events of an identifier handled one at a time, *)
(* every text valid for the current step, no call of the store, of the     *)
(* delivery client or of the backend failing, and the backend answering a  *)
(* forwarded answer with a final turn in the end, the conversation of an   *)
(* identifier without a record reaches a persisted step of COMPLETED.      *)
(***************************************************************************)
\* the persisted record of phone is at COMPLETED
Completed(phone) ==
    /\ Persisted(World, phone) # None
    /\ Val(Persisted(World, phone)).current_step = "COMPLETED"

C40_Progress == \A phone \in Phones : <>Completed(phone)

\* C40, witness: the conversation has reached COMPLETED after a second
\* question, in the session the assessment was started in
C40_Witness ==
    \E phone \in Phones :
        /\ Completed(phone)
        /\ Val(Persisted(World, phone)).questions_asked >= 2
        /\ Val(Persisted(World, phone)).session_id = Some(SessionId(1))
        /\ next_session = 2

====
